---- MODULE Spec2Model ----
(***************************************************************************)
(* A model of the distributed logging pipeline: the Agent (buffer, batch,  *)
(* retry, spill), the Ingestion service (token bucket, quota refresh,      *)
(* redaction, forward), the Config service (quota registry) and the        *)
(* Storage service (bulk index into the hot tier, migration to the cold    *)
(* tier, search over both).                                                *)
(*                                                                         *)
(* Spec and FairSpec run the Agent against its downstream; RateSpec runs   *)
(* check_rate under a clock; RefreshSpec and RefreshFairSpec run the quota *)
(* refresh against Config; IngestSpec runs POST /ingest record by record;  *)
(* MaskSpec runs mask_secrets over one entry.  A String is a sequence of   *)
(* characters, and the four regular expressions are matched character by   *)
(* character.                                                              *)
(* LimiterSpec runs check_rate while quotas are updated; LockSpec runs     *)
(* check_rate lock by lock with concurrent callers; MutexSpec and          *)
(* MutexFairSpec run the Agent's buffer guard by guard; TierSpec and       *)
(* TierFairSpec run the hourly migration against stores; SearchSpec runs   *)
(* POST /search over both tiers; RetrySpec runs the attempts of one batch  *)
(* of the Agent against POST /ingest.                                      *)
(*                                                                         *)
(* Time is discrete.  The Agent's sleeps are count-down timers in seconds; *)
(* a timer that reached 0 fires before more time passes.  The rate limiter *)
(* reads a clock `now` that counts ticks of 1/TicksPerSecond seconds.      *)
(*                                                                         *)
(* Uuid::new_v4() is modelled as a generator of fresh values (nextUuid).   *)
(* A log entry is identified by the number of the log call that passed it. *)
(***************************************************************************)
EXTENDS Integers, Sequences, FiniteSets, TLC

\* ---------------------------------------------------------------- bounds
MaxEntries == 2
MaxBatchSize == 2
MaxLoops == 2
MaxTime == 3
MaxRequests == 3
MaxQuota == 2
MaxCount == 3
TicksPerSecond == 2
MaxPieces == 3
MaxPasses == 2
MaxLatency == 1
MaxCallers == 2
MaxDays == 1
MaxLimit == 2
MaxOthers == 2

\* ------------------------------------------------------ program constants
FLUSH_INTERVAL == 1
MAX_ATTEMPTS == 3
BACKOFF_BASE == 2
DEFAULT_LIMIT == 1000
REFRESH_INTERVAL == 10
HOT_DAYS == 7
COLD_DAYS == 30
DEFAULT_SIZE == 100
CARD_DIGITS == 16
MIN_TLD == 2

VARIABLES
    batch_size,   \* LogAgent.batch_size
    buffer,       \* LogAgent.buffer: the entries waiting, oldest first
    nextEntry,    \* the number of the next log call
    nextUuid,     \* the next value Uuid::new_v4() returns
    loops,        \* the flush-loop tasks spawned by start_flush_loop; skipped: the
                  \* loop has just found the buffer empty and sleeps again
    batches,      \* one record per send_batch call that built a LogBatch
    disk,         \* the spill files in the working directory
    hot,          \* Storage: hot[id] = number of documents with that id in logs-hot
    waited,       \* waited[e]: seconds e spent in the buffer under a running flush loop
    quotas,       \* RateLimiter.quotas: app -> QuotaConfig
    tokens,       \* RateLimiter.tokens: app -> <<available, last_update>>
    now,          \* Instant::now() at Ingestion, in ticks
    admitted,     \* admitted[app][t]: records accepted for app at instant t, as
                  \* RateSpec and IngestSpec count them
    requests,     \* the number of requests check_rate has handled
    config,       \* ConfigStore.quotas: app -> QuotaConfig
    refresh,      \* the task spawned by load_quotas_from_config
    watch,        \* the POST /quotas under observation and its age in seconds
    index,        \* Storage: the documents of logs-hot, each under its _id
    last,         \* the latest POST /ingest: its body, its answer and what it caused
    entry,        \* a LogEntry under redaction
    passes,       \* the number of mask_secrets calls entry went through
    call,         \* the latest check_rate call: its arguments and its answer
    callers,      \* the concurrent check_rate calls, each with its position and locals
    readers,      \* the calls that hold the read lock of RateLimiter.quotas
    writer,       \* the call that holds the write lock of RateLimiter.tokens, or 0
    serial,       \* the token map and the answers of the calls run one after another
    logcalls,     \* the calls of LogAgent::log, each with its position and its `logs`
    mutex,        \* the task that holds the guard of LogAgent.buffer
    taken,        \* taken[l]: the `logs` flush loop l collected
    cold,         \* Storage: the documents of logs-cold, each under its _id
    archiver,     \* the task spawned by start_archiving, with the tick it is in
    today,        \* Utc::now() at Storage, in days
    found,        \* the latest POST /search of Storage: the query and the answer
    delivery      \* one batch of the Agent on its way through POST /ingest, retries included

agentVars == <<batch_size, buffer, nextEntry, nextUuid, loops, batches, disk, hot, waited>>
rateVars == <<quotas, tokens, now, admitted, requests>>
refreshVars == <<config, refresh, watch>>
ingestVars == <<index, last>>
maskVars == <<entry, passes>>
limiterVars == <<call>>
lockVars == <<callers, readers, writer, serial>>
mutexVars == <<logcalls, mutex, taken>>
tierVars == <<cold, archiver, today>>
searchVars == <<found>>
retryVars == <<delivery>>
restVars == <<limiterVars, lockVars, mutexVars, tierVars, searchVars, retryVars>>
nonAgentVars == <<rateVars, refreshVars, ingestVars, maskVars, restVars>>
nonRateVars == <<agentVars, refreshVars, ingestVars, maskVars, restVars>>
vars == <<agentVars, rateVars, refreshVars, ingestVars, maskVars, restVars>>

Entries == 1..MaxEntries
Loops == 1..MaxLoops
WaitCap == FLUSH_INTERVAL + 1

Min(a, b) == IF a < b THEN a ELSE b

RECURSIVE Pow(_, _)
Pow(b, n) == IF n = 0 THEN 1 ELSE b * Pow(b, n - 1)

SeqToSet(s) == {s[i] : i \in DOMAIN s}

\* ------------------------------------------------------- common: LogEntry
\* LogEntry::new, with the id, the level and the timestamp it got.
LogEntry_new(id, app_name, level, timestamp, message, attributes) ==
    [id |-> id, app_name |-> app_name, level |-> level, timestamp |-> timestamp,
     message |-> message, attributes |-> attributes]

\* ------------------------------------------------------- common: LogBatch
LogBatch_new(logs, uuid) == [logs |-> logs, batch_id |-> uuid]

\* -------------------------------------------- common: LogEntry::mask_secrets
\* A String is a sequence of one-character strings.

Stars(n) == [i \in 1..n |-> "*"]
PASSWORD == <<"p", "a", "s", "s", "w", "o", "r", "d">>
TOKEN == <<"t", "o", "k", "e", "n">>
SECRET == <<"s", "e", "c", "r", "e", "t">>
CARD_MASK == Stars(4) \o <<"-">> \o Stars(4) \o <<"-">> \o Stars(4) \o <<"-">> \o Stars(4)
PASSWORD_MASK == PASSWORD \o <<"=">> \o Stars(3)
TOKEN_MASK == TOKEN \o <<"=">> \o Stars(3)
EMAIL_MASK == Stars(3) \o <<"@">> \o Stars(3) \o <<".", "c", "o", "m">>
ATTR_MASK == Stars(3)

UpperSeq == <<"A", "B", "C", "D", "E", "F", "G", "H", "I", "J", "K", "L", "M",
              "N", "O", "P", "Q", "R", "S", "T", "U", "V", "W", "X", "Y", "Z">>
LowerSeq == <<"a", "b", "c", "d", "e", "f", "g", "h", "i", "j", "k", "l", "m",
              "n", "o", "p", "q", "r", "s", "t", "u", "v", "w", "x", "y", "z">>
Letter == SeqToSet(UpperSeq) \cup SeqToSet(LowerSeq)
Digit == {"0", "1", "2", "3", "4", "5", "6", "7", "8", "9"}

\* The character classes of the four patterns.
IsDigit(c) == c \in Digit
IsWordChar(c) == c \in Letter \cup Digit \cup {"_"}
IsSpace(c) == c \in {" ", "\t", "\n", "\r"}
IsNonSpace(c) == ~IsSpace(c)
IsLocalChar(c) == c \in Letter \cup Digit \cup {".", "_", "%", "+", "-"}
IsDomainChar(c) == c \in Letter \cup Digit \cup {".", "-"}
IsTldChar(c) == c \in Letter \cup {"|"}

Max(S) == CHOOSE x \in S : \A y \in S : y <= x

\* \b between s[i] and s[i+1] (i = 0: the start, i = Len(s): the end).
WordBoundary(s, i) ==
    (i >= 1 /\ IsWordChar(s[i])) # (i < Len(s) /\ IsWordChar(s[i + 1]))

\* The end of the longest run of characters of a class that starts at i
\* (i - 1 when s[i] is not in the class): a greedy repetition.
InClass(class, c) ==
    CASE class = "space" -> IsSpace(c)
      [] class = "nonspace" -> IsNonSpace(c)
      [] class = "local" -> IsLocalChar(c)
RunEnd(s, i, class) ==
    Max({e \in (i - 1)..Len(s) : \A k \in i..e : InClass(class, s[k])})

\* \b\d{16}\b at i: the index of the last character matched, 0 for no match.
card_match(s, i) ==
    IF /\ i + CARD_DIGITS - 1 <= Len(s)
       /\ WordBoundary(s, i - 1)
       /\ \A k \in i..(i + CARD_DIGITS - 1) : IsDigit(s[k])
       /\ WordBoundary(s, i + CARD_DIGITS - 1)
    THEN i + CARD_DIGITS - 1
    ELSE 0

\* word[=:]\s*\S+ at i, for word = password or token.
keyed_match(word, s, i) ==
    LET n == Len(word)
    IN  IF /\ i + n <= Len(s)
           /\ SubSeq(s, i, i + n - 1) = word
           /\ s[i + n] \in {"=", ":"}
        THEN LET spaces == RunEnd(s, i + n + 1, "space")
                 value == RunEnd(s, spaces + 1, "nonspace")
             IN  IF value > spaces THEN value ELSE 0
        ELSE 0

\* \b[A-Za-z0-9._%+-]+@[A-Za-z0-9.-]+\.[A-Z|a-z]{2,}\b at i: the greedy domain
\* and top-level parts give back characters until the rest matches.
email_match(s, i) ==
    LET at == RunEnd(s, i, "local") + 1
        ends == {je \in (1..Len(s)) \X (1..Len(s)) :
                   /\ je[1] >= at + 2
                   /\ s[je[1]] = "."
                   /\ \A k \in (at + 1)..(je[1] - 1) : IsDomainChar(s[k])
                   /\ je[2] >= je[1] + MIN_TLD
                   /\ \A k \in (je[1] + 1)..je[2] : IsTldChar(s[k])
                   /\ WordBoundary(s, je[2])}
    IN  IF /\ i <= Len(s)
           /\ WordBoundary(s, i - 1)
           /\ at > i
           /\ at <= Len(s)
           /\ s[at] = "@"
           /\ ends # {}
        THEN LET dot == Max({je[1] : je \in ends})
             IN  Max({je[2] : je \in {x \in ends : x[1] = dot}})
        ELSE 0

\* The vec of (pattern, replacement) pairs, in its order.
NumPatterns == 4
pattern_match(p, s, i) ==
    CASE p = 1 -> card_match(s, i)
      [] p = 2 -> keyed_match(PASSWORD, s, i)
      [] p = 3 -> keyed_match(TOKEN, s, i)
      [] p = 4 -> email_match(s, i)
replacement(p) ==
    CASE p = 1 -> CARD_MASK
      [] p = 2 -> PASSWORD_MASK
      [] p = 3 -> TOKEN_MASK
      [] p = 4 -> EMAIL_MASK

\* Faulty variant of replace_from: only the first match is replaced.
replace_first_from(p, s, pos) ==
    LET starts == {i \in pos..Len(s) : pattern_match(p, s, i) # 0}
    IN  IF starts = {}
        THEN SubSeq(s, pos, Len(s))
        ELSE LET i == CHOOSE x \in starts : \A y \in starts : x <= y
             IN  SubSeq(s, pos, i - 1) \o replacement(p)
                    \o SubSeq(s, pattern_match(p, s, i) + 1, Len(s))

\* Regex::replace_all: every leftmost non-overlapping match, from position pos on.
RECURSIVE replace_from(_, _, _)
replace_from(p, s, pos) ==
    LET starts == {i \in pos..Len(s) : pattern_match(p, s, i) # 0}
    IN  IF starts = {}
        THEN SubSeq(s, pos, Len(s))
        ELSE LET i == CHOOSE x \in starts : \A y \in starts : x <= y
             IN  SubSeq(s, pos, i - 1) \o replacement(p)
                    \o replace_from(p, s, pattern_match(p, s, i) + 1)

replace_all(p, s) == replace_from(p, s, 1)

\* for (pattern, replacement) in &patterns { self.message = ... }
RECURSIVE mask_message(_, _)
mask_message(message, p) ==
    IF p > NumPatterns THEN message
    ELSE mask_message(replace_all(p, message), p + 1)

\* Faulty variant of to_lowercase: the key is compared as it is written.
to_lowercase_verbatim(s) == s

\* str::to_lowercase and str::contains
to_lowercase(s) ==
    [i \in DOMAIN s |->
        IF s[i] \in SeqToSet(UpperSeq)
        THEN LowerSeq[CHOOSE k \in DOMAIN UpperSeq : UpperSeq[k] = s[i]]
        ELSE s[i]]
contains(s, sub) ==
    \E i \in 1..(Len(s) - Len(sub) + 1) : SubSeq(s, i, i + Len(sub) - 1) = sub
is_sensitive(key) ==
    \/ contains(to_lowercase(key), PASSWORD)
    \/ contains(to_lowercase(key), TOKEN)
    \/ contains(to_lowercase(key), SECRET)

\* for (key, value) in self.attributes.iter_mut() { ... }
mask_attributes(attributes) ==
    [key \in DOMAIN attributes |->
        IF is_sensitive(key) THEN ATTR_MASK ELSE attributes[key]]

\* LogEntry::mask_secrets
mask_secrets(e) ==
    [e EXCEPT !.message = mask_message(@, 1),
              !.attributes = mask_attributes(@)]

\* ------------------------------------------------------------ the Agent

\* serde_json::to_vec, then gzip: the body of a POST /ingest.
compress_batch(batch) == [encoding |-> "gzip", json |-> batch]

\* serde_json::to_string_pretty: the content of a spill file.
spill_file(batch) ==
    [name |-> <<"failed_batch_", batch.batch_id, ".json">>,
     content |-> [encoding |-> "pretty", json |-> batch]]

\* Faulty variant of backoff: the exponent counts attempts from 0.
backoff_from_zero(attempt) == Pow(BACKOFF_BASE, attempt - 1)

\* 2u64.pow(attempt): the sleep after failed attempt `attempt`.
backoff(attempt) == Pow(BACKOFF_BASE, attempt)

\* send_batch after its emptiness check: build the LogBatch, compress it once
\* and issue the first POST.  owner is 0 for a task spawned by log and the
\* loop's number for a flush loop, which awaits send_batch inline.
start_transmission(owner, logs) ==
    LET batch == LogBatch_new(logs, nextUuid)
        compressed == compress_batch(batch)
    IN  /\ nextUuid' = nextUuid + 1
        /\ batches' = Append(batches,
              [owner |-> owner, batch |-> batch, compressed |-> compressed,
               pc |-> "post", attempt |-> 1, timer |-> 0,
               posts |-> <<compressed>>, results |-> <<>>, sleeps |-> <<>>,
               spill |-> "none"])

send_batch(owner, logs) ==
    IF logs = <<>>
    THEN UNCHANGED <<batches, nextUuid>>
    ELSE start_transmission(owner, logs)

\* Faulty variant of log: the size trigger compares with > instead of >=.
log_above_batch_size ==
    /\ nextEntry <= MaxEntries
    /\ LET pushed == Append(buffer, nextEntry)
       IN  /\ nextEntry' = nextEntry + 1
           /\ IF Len(pushed) > batch_size
              THEN /\ buffer' = <<>>
                   /\ waited' = [e \in Entries |-> 0]
                   /\ send_batch(0, pushed)
              ELSE /\ buffer' = pushed
                   /\ UNCHANGED <<batches, nextUuid, waited>>
    /\ UNCHANGED <<batch_size, loops, disk, hot>>
    /\ UNCHANGED nonAgentVars

\* Faulty variant of log: push_front instead of push_back.
log_push_front ==
    /\ nextEntry <= MaxEntries
    /\ LET pushed == <<nextEntry>> \o buffer
       IN  /\ nextEntry' = nextEntry + 1
           /\ IF Len(pushed) >= batch_size
              THEN /\ buffer' = <<>>
                   /\ waited' = [e \in Entries |-> 0]
                   /\ send_batch(0, pushed)
              ELSE /\ buffer' = pushed
                   /\ UNCHANGED <<batches, nextUuid, waited>>
    /\ UNCHANGED <<batch_size, loops, disk, hot>>
    /\ UNCHANGED nonAgentVars

\* LogAgent::log: push, and drain the whole buffer into a spawned send_batch
\* when it reached batch_size.  The lock is held from push to drain.
log ==
    /\ nextEntry <= MaxEntries
    /\ LET pushed == Append(buffer, nextEntry)
       IN  /\ nextEntry' = nextEntry + 1
           /\ IF Len(pushed) >= batch_size
              THEN /\ buffer' = <<>>
                   /\ waited' = [e \in Entries |-> 0]
                   /\ send_batch(0, pushed)
              ELSE /\ buffer' = pushed
                   /\ UNCHANGED <<batches, nextUuid, waited>>
    /\ UNCHANGED <<batch_size, loops, disk, hot>>
    /\ UNCHANGED nonAgentVars

\* LogAgent::start_flush_loop: every call spawns one more loop task, which
\* starts with sleep(1 s).
start_flush_loop ==
    /\ \E l \in Loops :
          /\ loops[l].pc = "off"
          /\ \A k \in Loops : k < l => loops[k].pc # "off"
          /\ loops' = [loops EXCEPT ![l] =
                [pc |-> "sleep", timer |-> FLUSH_INTERVAL, skipped |-> FALSE]]
    /\ UNCHANGED <<batch_size, buffer, nextEntry, nextUuid, batches, disk, hot, waited>>
    /\ UNCHANGED nonAgentVars

\* Faulty variant of flush_tick: the loop sends whatever it drained, without the
\* emptiness checks of the loop and of send_batch.
flush_tick_unchecked(l) ==
    /\ loops[l].pc = "sleep"
    /\ loops[l].timer = 0
    /\ buffer' = <<>>
    /\ waited' = [e \in Entries |-> 0]
    /\ start_transmission(l, buffer)
    /\ loops' = [loops EXCEPT ![l] = [pc |-> "send", timer |-> 0, skipped |-> FALSE]]
    /\ UNCHANGED <<batch_size, nextEntry, disk, hot>>
    /\ UNCHANGED nonAgentVars

\* One iteration of the flush loop once its sleep is over: drain a non-empty
\* buffer and await send_batch inline, else sleep again.
flush_tick(l) ==
    /\ loops[l].pc = "sleep"
    /\ loops[l].timer = 0
    /\ IF buffer # <<>>
       THEN /\ buffer' = <<>>
            /\ waited' = [e \in Entries |-> 0]
            /\ send_batch(l, buffer)
            /\ loops' = [loops EXCEPT ![l] = [pc |-> "send", timer |-> 0, skipped |-> FALSE]]
       ELSE /\ loops' = [loops EXCEPT ![l] =
                  [pc |-> "sleep", timer |-> FLUSH_INTERVAL, skipped |-> TRUE]]
            /\ UNCHANGED <<buffer, batches, nextUuid, waited>>
    /\ UNCHANGED <<batch_size, nextEntry, disk, hot>>
    /\ UNCHANGED nonAgentVars

\* Faulty variant of resume: the flush loop ends with its first batch.
resume_never(ls, owner) == ls

\* send_batch returned to the flush loop that awaited it: the loop sleeps again.
resume(ls, owner) ==
    IF owner = 0 THEN ls
    ELSE [ls EXCEPT ![owner] = [pc |-> "sleep", timer |-> FLUSH_INTERVAL, skipped |-> FALSE]]

\* ----------------------------------------------------------- the Storage

is_success(status) == status >= 200 /\ status <= 299

\* LogStorage::store: one bulk request that indexes every record under its id.
\* bulk is the engine's answer: "2xx", "non2xx" or "error" (transport).
store(h, batch, bulk) ==
    IF bulk = "2xx"
    THEN [id \in DOMAIN h |-> IF id \in SeqToSet(batch.logs) THEN 1 ELSE h[id]]
    ELSE h

\* store_logs: the handler of POST /store.
store_logs(h, batch, bulk) == [status |-> 200, hot |-> store(h, batch, bulk)]

\* --------------------------------------------------------- the Ingestion

\* ingest_logs: the handler of POST /ingest.  rate is the answer of check_rate,
\* fwd the fate of the POST to /store: "ok" or "refused" (Storage not reached).
ingest_logs(h, body, rate, fwd, bulk) ==
    IF body.encoding # "gzip"
    THEN [status |-> 400, hot |-> h]
    ELSE LET batch == body.json
         IN  IF batch.logs # <<>> /\ ~rate
             THEN [status |-> 429, hot |-> h]
             ELSE IF fwd = "refused"
                  THEN [status |-> 500, hot |-> h]
                  ELSE LET st == store_logs(h, batch, bulk)
                       IN  [status |-> IF is_success(st.status) THEN 200 ELSE 500,
                            hot |-> st.hot]

\* ------------------------------------------------- the Agent: retry loop

\* send_with_compression: Ok exactly on a 2xx answer that arrived.
send_with_compression(net, status) ==
    IF net = "ok" /\ is_success(status) THEN "ok" ELSE "err"

\* The answer to the POST in flight of batch b, and the match on it in
\* send_batch.  net is the fate of the POST: "ok" or "refused" (Ingestion not
\* reached).
respond(b) ==
    /\ b \in DOMAIN batches
    /\ batches[b].pc = "post"
    /\ \E net \in {"ok", "refused"} :
       \E rate \in IF net = "refused" THEN {TRUE} ELSE BOOLEAN :
       \E fwd \in IF rate /\ net # "refused" THEN {"ok", "refused"} ELSE {"refused"} :
       \E bulk \in IF fwd # "refused" THEN {"2xx", "non2xx", "error"} ELSE {"error"} :
          LET t == batches[b]
              body == t.posts[Len(t.posts)]
              handled == IF net = "refused"
                         THEN [status |-> 0, hot |-> hot]
                         ELSE ingest_logs(hot, body, rate, fwd, bulk)
              res == send_with_compression(net, handled.status)
          IN  /\ hot' = handled.hot
              /\ IF res = "ok"
                 THEN /\ batches' = [batches EXCEPT ![b] =
                            [t EXCEPT !.pc = "done", !.results = Append(@, res)]]
                      /\ loops' = resume(loops, t.owner)
                 ELSE IF t.attempt < MAX_ATTEMPTS
                 THEN /\ batches' = [batches EXCEPT ![b] =
                            [t EXCEPT !.pc = "backoff", !.results = Append(@, res),
                                      !.timer = backoff(t.attempt),
                                      !.sleeps = Append(@, backoff(t.attempt))]]
                      /\ UNCHANGED loops
                 ELSE /\ batches' = [batches EXCEPT ![b] =
                            [t EXCEPT !.pc = "spill", !.results = Append(@, res)]]
                      /\ UNCHANGED loops
    /\ UNCHANGED <<batch_size, buffer, nextEntry, nextUuid, disk, waited>>
    /\ UNCHANGED nonAgentVars

\* Faulty variant of retry: the LogBatch is built again, with a new batch_id, for
\* every attempt.
retry_rebuilt(b) ==
    /\ b \in DOMAIN batches
    /\ batches[b].pc = "backoff"
    /\ batches[b].timer = 0
    /\ nextUuid' = nextUuid + 1
    /\ batches' = [batches EXCEPT ![b] =
          [@ EXCEPT !.pc = "post", !.attempt = @ + 1,
                    !.posts = Append(@, compress_batch(
                                  LogBatch_new(batches[b].batch.logs, nextUuid)))]]
    /\ UNCHANGED <<batch_size, buffer, nextEntry, loops, disk, hot, waited>>
    /\ UNCHANGED nonAgentVars

\* The backoff sleep of batch b is over: the next attempt POSTs the same bytes.
retry(b) ==
    /\ b \in DOMAIN batches
    /\ batches[b].pc = "backoff"
    /\ batches[b].timer = 0
    /\ batches' = [batches EXCEPT ![b] =
          [@ EXCEPT !.pc = "post", !.attempt = @ + 1,
                    !.posts = Append(@, batches[b].compressed)]]
    /\ UNCHANGED <<batch_size, buffer, nextEntry, nextUuid, loops, disk, hot, waited>>
    /\ UNCHANGED nonAgentVars

\* save_to_disk(&batch).await.ok(): the write may fail, and the error is dropped.
save_to_disk(b) ==
    /\ b \in DOMAIN batches
    /\ batches[b].pc = "spill"
    /\ \E written \in BOOLEAN :
          LET f == spill_file(batches[b].batch)
          IN  /\ disk' = IF written
                         THEN {g \in disk : g.name # f.name} \cup {f}
                         ELSE disk
              /\ batches' = [batches EXCEPT ![b] =
                    [@ EXCEPT !.pc = "done",
                              !.spill = IF written THEN "ok" ELSE "err"]]
    /\ loops' = resume(loops, batches[b].owner)
    /\ UNCHANGED <<batch_size, buffer, nextEntry, nextUuid, hot, waited>>
    /\ UNCHANGED nonAgentVars

\* One second passes.  No sleep that is over is left waiting.
LoopRunning == \E l \in Loops : loops[l].pc # "off"

tick ==
    /\ \A l \in Loops : loops[l].pc = "sleep" => loops[l].timer > 0
    /\ \A b \in DOMAIN batches : batches[b].pc = "backoff" => batches[b].timer > 0
    /\ loops' = [l \in Loops |->
          IF loops[l].pc = "sleep"
          THEN [loops[l] EXCEPT !.timer = @ - 1, !.skipped = FALSE] ELSE loops[l]]
    /\ batches' = [b \in DOMAIN batches |->
          IF batches[b].pc = "backoff"
          THEN [batches[b] EXCEPT !.timer = @ - 1] ELSE batches[b]]
    /\ waited' = [e \in Entries |->
          IF e \in SeqToSet(buffer) /\ LoopRunning
          THEN Min(waited[e] + 1, WaitCap) ELSE waited[e]]
    /\ UNCHANGED <<batch_size, buffer, nextEntry, nextUuid, disk, hot>>
    /\ UNCHANGED nonAgentVars

\* ------------------------------------------- the Ingestion: RateLimiter

Apps == {"a", "b"}
Instants == 0..MaxTime
QuotaValues == 0..MaxQuota
Counts == (1..MaxCount) \cup {DEFAULT_LIMIT, DEFAULT_LIMIT + 1}

\* HashMap::insert
insert(map, key, value) ==
    [k \in DOMAIN map \cup {key} |-> IF k = key THEN value ELSE map[k]]

\* quotas.get(app_name).map(|q| q.logs_per_second).unwrap_or(1000)
limit_of(q, app_name) ==
    IF app_name \in DOMAIN q THEN q[app_name].logs_per_second ELSE DEFAULT_LIMIT

\* tokens.get(app_name).copied().unwrap_or((limit, now))
bucket_of(tk, app_name, limit, t) ==
    IF app_name \in DOMAIN tk THEN tk[app_name] ELSE <<limit, t>>

\* Faulty variant of new_tokens: the refill is not capped by the limit.
new_tokens_uncapped(available, last_update, limit, t) ==
    available + ((t - last_update) * limit) \div TicksPerSecond

\* (available as f64 + elapsed * limit as f64).min(limit as f64) as u64, with
\* elapsed = (t - last_update) / TicksPerSecond seconds: the cast truncates.
new_tokens(available, last_update, limit, t) ==
    Min(limit, available + ((t - last_update) * limit) \div TicksPerSecond)

\* Faulty variant of debit: the stored last_update is not advanced to now.
debit_keeps_last_update(tk, app_name, refilled, count, last_update, t) ==
    insert(tk, app_name, <<refilled - count, last_update>>)

\* tokens.insert(app_name.to_string(), (new_tokens - count, now))
debit(tk, app_name, refilled, count, last_update, t) ==
    insert(tk, app_name, <<refilled - count, t>>)

\* RateLimiter::check_rate, as the handler of a request of count records for
\* app_name runs it.
check_rate(app_name, count) ==
    LET limit == limit_of(quotas, app_name)
        bucket == bucket_of(tokens, app_name, limit, now)
        refilled == new_tokens(bucket[1], bucket[2], limit, now)
    IN  /\ requests < MaxRequests
        /\ requests' = requests + 1
        /\ IF refilled >= count
           THEN /\ tokens' = debit(tokens, app_name, refilled, count, bucket[2], now)
                /\ admitted' = [admitted EXCEPT ![app_name][now] = @ + count]
           ELSE /\ UNCHANGED <<tokens, admitted>>
        /\ UNCHANGED <<quotas, now>>
        /\ UNCHANGED nonRateVars

\* A POST /ingest whose batch holds count records of app_name reaches the quota check.
request ==
    \E app_name \in Apps, count \in Counts : check_rate(app_name, count)

\* 1/TicksPerSecond seconds pass at Ingestion.
clock ==
    /\ now < MaxTime
    /\ now' = now + 1
    /\ UNCHANGED <<quotas, tokens, admitted, requests>>
    /\ UNCHANGED nonRateVars

\* --------------------------------- Ingestion and Storage, record by record

\* The document LogStorage::store builds for a record, under the record's id.
document(record) ==
    [_id |-> record.id,
     source |-> [id |-> record.id, app_name |-> record.app_name, level |-> record.level,
                 timestamp |-> record.timestamp, message |-> record.message,
                 attributes |-> record.attributes]]

\* Faulty variant of index_doc: the operation carries no id, and the engine
\* gives the document a new one.
index_doc_auto_id(idx, record) ==
    idx \cup {[document(record) EXCEPT !._id = 0 - (Cardinality(idx) + 1)]}

\* BulkOperation::index(doc).id(&log.id): the engine puts the document under
\* that _id, in the place of the one it may hold there.
index_doc(idx, record) ==
    {d \in idx : d._id # record.id} \cup {document(record)}

\* The bulk request on logs-hot: the operations in the order of the records.
RECURSIVE bulk(_, _)
bulk(idx, logs) ==
    IF logs = <<>> THEN idx
    ELSE bulk(index_doc(idx, Head(logs)), Tail(logs))

\* LogStorage::store on the documents: the engine's answer is only logged.
store_documents(idx, batch, answer) ==
    IF answer = "2xx" THEN bulk(idx, batch.logs) ELSE idx

\* store_logs on the documents.
store_logs_documents(idx, batch, answer) ==
    [status |-> 200, index |-> store_documents(idx, batch, answer)]

\* GzDecoder::read_to_end and serde_json::from_slice::<LogBatch>.
gunzips(body) == body.encoding = "gzip"
parses(json) == DOMAIN json = {"logs", "batch_id"}

\* The token map check_rate leaves, and its answer.
check_rate_ok(q, tk, app_name, count, t) ==
    LET limit == limit_of(q, app_name)
        bucket == bucket_of(tk, app_name, limit, t)
    IN  new_tokens(bucket[1], bucket[2], limit, t) >= count

\* Faulty variant of check_rate_tokens: a rejected request stores the refilled
\* bucket, which restarts the refill clock.
check_rate_tokens_refilled(q, tk, app_name, count, t) ==
    LET limit == limit_of(q, app_name)
        bucket == bucket_of(tk, app_name, limit, t)
        refilled == new_tokens(bucket[1], bucket[2], limit, t)
    IN  IF refilled >= count
        THEN debit(tk, app_name, refilled, count, bucket[2], t)
        ELSE insert(tk, app_name, <<refilled, t>>)

\* Faulty variant of check_rate_tokens: a rejected request empties the bucket.
check_rate_tokens_drained(q, tk, app_name, count, t) ==
    LET limit == limit_of(q, app_name)
        bucket == bucket_of(tk, app_name, limit, t)
        refilled == new_tokens(bucket[1], bucket[2], limit, t)
    IN  IF refilled >= count
        THEN debit(tk, app_name, refilled, count, bucket[2], t)
        ELSE insert(tk, app_name, <<0, t>>)

check_rate_tokens(q, tk, app_name, count, t) ==
    LET limit == limit_of(q, app_name)
        bucket == bucket_of(tk, app_name, limit, t)
        refilled == new_tokens(bucket[1], bucket[2], limit, t)
    IN  IF refilled >= count
        THEN debit(tk, app_name, refilled, count, bucket[2], t)
        ELSE tk

\* Faulty variant of redact_batch: the pass runs twice over the batch.
redact_batch_twice(batch) ==
    [batch EXCEPT !.logs = [i \in DOMAIN @ |-> mask_secrets(mask_secrets(@[i]))]]

\* for log in &mut batch.logs { log.mask_secrets(); }
redact_batch(batch) ==
    [batch EXCEPT !.logs = [i \in DOMAIN @ |-> mask_secrets(@[i])]]

\* Faulty variant of forward_status: any answer of Storage counts as success.
forward_status_any_answer(reached, status) ==
    IF reached THEN 200 ELSE 500

\* The match on the result of the POST to /store: reached is Ok(resp), and
\* status is resp.status().
forward_status(reached, status) ==
    IF reached /\ is_success(status) THEN 200 ELSE 500

\* The records that reach POST /ingest.
IngestEntries ==
    {LogEntry_new(1, "a", "Info", 0, PASSWORD \o <<"=", "x">>, << >>),
     LogEntry_new(2, "a", "Warn", 0,
                  <<"a", "@", "b", ".", "c", "c", "@", "b", ".", "c", "c">>,
                  (TOKEN :> <<"v">>)),
     LogEntry_new(1, "b", "Error", 0, <<"x">>, << >>)}
\* The batches: empty, of one record, and of two records with increasing level
\* (two of them share an id).
LevelRank == "Info" :> 1 @@ "Warn" :> 2 @@ "Error" :> 3
IngestBatches ==
    {LogBatch_new(logs, 1) :
        logs \in {<<>>} \cup {<<e>> : e \in IngestEntries}
                    \cup {p \in IngestEntries \X IngestEntries :
                            LevelRank[p[1].level] < LevelRank[p[2].level]}}
\* redact_batch, batch by batch.
Redacted == [b \in IngestBatches |-> redact_batch(b)]
\* The bodies: a gzipped LogBatch, bytes that are not gzip, and gzipped JSON
\* that is not a LogBatch.
Bodies ==
    {compress_batch(b) : b \in IngestBatches}
        \cup {[encoding |-> "identity", json |-> LogBatch_new(<<>>, 1)],
              [encoding |-> "gzip", json |-> [batch_id |-> 1]]}

NoStore == [called |-> FALSE, answer |-> "none", status |-> 0]
NoExchange ==
    [body |-> [encoding |-> "identity", json |-> LogBatch_new(<<>>, 1)],
     status |-> 0, forwarded |-> <<>>, fate |-> "none", storage_status |-> 0,
     store |-> NoStore,
     replaced |-> {}]

\* ingest_logs, from the body to the answer.  fate is the fate of the POST to
\* /store: "answered" by store_logs, "rejected" (Storage answers 413 without
\* running store_logs) or "refused" (Storage not reached); answer is the
\* engine's answer to the bulk request.
ingest ==
    /\ requests < MaxRequests
    /\ requests' = requests + 1
    /\ \E body \in Bodies :
       \E fate \in {"answered", "rejected", "refused"} :
       \E answer \in IF fate = "answered" THEN {"2xx", "non2xx", "error"} ELSE {"none"} :
          IF ~gunzips(body) \/ ~parses(body.json)
          THEN /\ last' = [NoExchange EXCEPT !.body = body, !.status = 400]
               /\ UNCHANGED <<tokens, admitted, index>>
          ELSE LET batch == body.json
                   checked == batch.logs # <<>>
                   app_name == batch.logs[1].app_name
                   count == Len(batch.logs)
               IN  IF checked /\ ~check_rate_ok(quotas, tokens, app_name, count, now)
                   THEN /\ tokens' = check_rate_tokens(quotas, tokens, app_name, count, now)
                        /\ last' = [NoExchange EXCEPT !.body = body, !.status = 429]
                        /\ UNCHANGED <<admitted, index>>
                   ELSE LET redacted == Redacted[batch]
                            stored == store_logs_documents(index, redacted, answer)
                            status == IF fate = "answered" THEN stored.status
                                      ELSE IF fate = "rejected" THEN 413 ELSE 0
                        IN  /\ tokens' = IF checked
                                         THEN check_rate_tokens(quotas, tokens, app_name,
                                                                count, now)
                                         ELSE tokens
                            /\ admitted' = IF checked
                                           THEN [admitted EXCEPT ![app_name][now] = @ + count]
                                           ELSE admitted
                            /\ index' = IF fate = "answered" THEN stored.index ELSE index
                            /\ last' = [body |-> body,
                                        status |-> forward_status(fate # "refused", status),
                                        forwarded |-> <<redacted>>,
                                        fate |-> fate,
                                        storage_status |-> status,
                                        store |-> IF fate = "answered"
                                                  THEN [called |-> TRUE, answer |-> answer,
                                                        status |-> stored.status]
                                                  ELSE NoStore,
                                        replaced |-> {d._id : d \in index}
                                                        \cap {l.id : l \in SeqToSet(redacted.logs)}]
    /\ UNCHANGED <<quotas, now>>
    /\ UNCHANGED <<agentVars, refreshVars, maskVars, restVars>>

\* ------------------------------------------ Config and the quota refresh

QuotaConfig(app_name, logs_per_second) ==
    [app_name |-> app_name, logs_per_second |-> logs_per_second]

\* ConfigStore::new
ConfigStore_new ==
    "user-service" :> QuotaConfig("user-service", 1000)
        @@ "payment-service" :> QuotaConfig("payment-service", 5000)

\* ConfigStore::get_quotas: the values, in no particular order.
get_quotas(cfg) == {cfg[a] : a \in DOMAIN cfg}

\* ConfigStore::update_quota and RateLimiter::update_quota: an upsert by app_name.
update_quota(q, cfg) == insert(q, cfg.app_name, cfg)

\* for config in configs { limiter.update_quota(config).await }
RECURSIVE update_quotas(_, _)
update_quotas(q, configs) ==
    IF configs = {} THEN q
    ELSE LET c == CHOOSE x \in configs : TRUE
         IN  update_quotas(update_quota(q, c), configs \ {c})

\* No response body, or one that is not a JSON array of QuotaConfig.
NoBody == [parses |-> FALSE, configs |-> {}]

\* The rates a client POSTs to Config.
PostedRates == {0, MaxQuota}
WatchCap == REFRESH_INTERVAL + 1

\* POST /quotas of Config.  The POST may be put under observation; an
\* observation ends when the same app gets its next POST.
post_quota ==
    /\ \E app_name \in Apps, rate \in PostedRates :
          /\ config' = update_quota(config, QuotaConfig(app_name, rate))
          /\ watch' \in {[on |-> TRUE, app_name |-> app_name, rate |-> rate, age |-> 0]}
                \cup (IF watch.on /\ watch.app_name # app_name THEN {watch} ELSE {})
    /\ UNCHANGED refresh
    /\ UNCHANGED <<agentVars, rateVars, ingestVars, maskVars, restVars>>

\* sleep(10 s) is over: the task issues GET <config_url>/quotas.
send_get ==
    /\ refresh.pc = "sleep"
    /\ refresh.timer = 0
    /\ refresh' = [refresh EXCEPT !.pc = "get", !.latency = 0]
    /\ UNCHANGED <<config, watch>>
    /\ UNCHANGED <<agentVars, rateVars, ingestVars, maskVars, restVars>>

\* GET /quotas is answered: by Config with its quotas of that moment, or by
\* something whose body is not a JSON array of QuotaConfig.
serve_get ==
    /\ refresh.pc = "get"
    /\ \E body \in {[parses |-> TRUE, configs |-> get_quotas(config)], NoBody} :
          refresh' = [refresh EXCEPT !.pc = "resp", !.body = body]
    /\ UNCHANGED <<config, watch>>
    /\ UNCHANGED <<agentVars, rateVars, ingestVars, maskVars, restVars>>

\* Faulty variant of after_error: the task returns on the first error.
after_error_exit(r, outcome) ==
    [r EXCEPT !.pc = "exited", !.body = NoBody, !.outcome = outcome, !.failed = TRUE]

\* The Err arm and the failed `if let Ok(configs)`: nothing but a log line, and
\* the loop goes on with sleep(10 s).
after_error(r, outcome) ==
    [r EXCEPT !.pc = "sleep", !.timer = REFRESH_INTERVAL, !.body = NoBody,
              !.outcome = outcome, !.failed = TRUE]

\* reqwest::get returns Err: Config was not reached.
get_fails ==
    /\ refresh.pc = "get"
    /\ refresh' = after_error(refresh, "unreachable")
    /\ UNCHANGED <<config, watch>>
    /\ UNCHANGED <<agentVars, rateVars, ingestVars, maskVars, restVars>>

\* The response is here: resp.json::<Vec<QuotaConfig>>() and the upserts.
receive ==
    /\ refresh.pc = "resp"
    /\ IF ~refresh.body.parses
       THEN /\ refresh' = after_error(refresh, "unparsable")
            /\ UNCHANGED quotas
       ELSE /\ quotas' = update_quotas(quotas, refresh.body.configs)
            /\ refresh' = [refresh EXCEPT !.pc = "sleep", !.timer = REFRESH_INTERVAL,
                                          !.body = NoBody, !.outcome = "ok"]
    /\ UNCHANGED <<config, watch>>
    /\ UNCHANGED <<tokens, now, admitted, requests>>
    /\ UNCHANGED <<agentVars, ingestVars, maskVars, restVars>>

\* One second passes at Config and Ingestion.  The GET and its response take
\* up to MaxLatency seconds together.
second ==
    /\ refresh.pc = "sleep" => refresh.timer > 0
    /\ refresh.pc \in {"get", "resp"} => refresh.latency < MaxLatency
    /\ refresh' = IF refresh.pc = "sleep" THEN [refresh EXCEPT !.timer = @ - 1]
                  ELSE IF refresh.pc \in {"get", "resp"}
                  THEN [refresh EXCEPT !.latency = @ + 1]
                  ELSE refresh
    /\ watch' = IF watch.on THEN [watch EXCEPT !.age = Min(@ + 1, WatchCap)] ELSE watch
    /\ UNCHANGED config
    /\ UNCHANGED <<agentVars, rateVars, ingestVars, maskVars, restVars>>

\* ------------------------------------------------- redaction of one entry

\* The messages: up to MaxPieces pieces, each a card number, a digit, a keyword,
\* a separator, a space, a letter or the tail of an e-mail address.
CardNumber == [i \in 1..CARD_DIGITS |-> "4"]
Pieces ==
    {CardNumber, <<"1">>, PASSWORD, TOKEN, <<"=">>, <<" ">>, <<"a">>,
     <<"@", "b", ".", "c", "c">>}
RECURSIVE MessagesOf(_)
MessagesOf(n) ==
    IF n = 0 THEN {<<>>}
    ELSE LET shorter == MessagesOf(n - 1)
         IN  shorter \cup {m \o piece : m \in shorter, piece \in Pieces}
Messages == MessagesOf(MaxPieces)

\* The attribute maps: any of these keys, each with the value "v".
Keys ==
    {<<"u", "_">> \o PASSWORD, <<"T", "O", "K", "E", "N">>, <<"S", "e", "c", "r", "e", "t", "s">>,
     <<"n", "a", "m", "e">>, <<"p", "a", "s", "s">>}
AttributeMaps == UNION {[S -> {<<"v">>, ATTR_MASK}] : S \in SUBSET Keys}

\* "card 4444444444444444 and a@b.cc, password=hunter2" and what it becomes.
CardEmailPassword ==
    <<"c", "a", "r", "d", " ">> \o CardNumber
        \o <<" ", "a", "n", "d", " ", "a", "@", "b", ".", "c", "c", ",", " ">>
        \o PASSWORD \o <<"=", "h", "u", "n", "t", "e", "r", "2">>
CardEmailPasswordMasked ==
    <<"c", "a", "r", "d", " ">> \o CARD_MASK
        \o <<" ", "a", "n", "d", " ">> \o EMAIL_MASK \o <<",", " ">> \o PASSWORD_MASK
\* "API request with token:Bearer_abc"
TokenColon ==
    <<"A", "P", "I", " ">> \o TOKEN \o <<":", "B", "e", "a", "r", "e", "r", "_", "a", "b", "c">>

LogEntries ==
    {LogEntry_new(1, "a", "Info", 0, m, << >>) :
        m \in Messages \cup {CardEmailPassword, TokenColon}}
        \cup {LogEntry_new(1, "a", "Error", 0, PASSWORD \o <<"=", "x">>, at) : at \in AttributeMaps}

\* One more pass of mask_secrets over the entry.
redact ==
    /\ passes < MaxPasses
    /\ entry' = mask_secrets(entry)
    /\ passes' = passes + 1
    /\ UNCHANGED <<agentVars, rateVars, refreshVars, ingestVars, restVars>>

\* ------------------------------- the RateLimiter under quota updates

\* The rates update_quota stores: no record, one record per second, and a
\* rate that refills a fraction of a token within one tick.
LimiterRates == {0, 1, MaxQuota + 1}
\* The apps Config holds a quota for; the others keep the default limit.
RefreshedApps == {"a"}
NoCall == [app_name |-> "a", count |-> 0, ok |-> FALSE]

\* One call of check_rate, with its arguments and its answer on record.
check_rate_call ==
    /\ requests < MaxRequests
    /\ requests' = requests + 1
    /\ \E app_name \in Apps, count \in Counts :
          LET ok == check_rate_ok(quotas, tokens, app_name, count, now)
          IN  /\ tokens' = check_rate_tokens(quotas, tokens, app_name, count, now)
              /\ call' = [app_name |-> app_name, count |-> count, ok |-> ok]
    /\ UNCHANGED <<quotas, now, admitted>>
    /\ UNCHANGED <<agentVars, refreshVars, ingestVars, maskVars, lockVars, mutexVars, tierVars,
                 searchVars, retryVars>>

\* One call of RateLimiter::update_quota, as the refresh task makes it.
update_quota_call ==
    /\ \E app_name \in RefreshedApps, rate \in LimiterRates :
          quotas' = update_quota(quotas, QuotaConfig(app_name, rate))
    /\ UNCHANGED <<tokens, now, admitted, requests>>
    /\ UNCHANGED <<agentVars, refreshVars, ingestVars, maskVars, restVars>>

\* --------------------------------- check_rate, lock by lock

Callers == 1..MaxCallers
\* The record counts of the concurrent requests, and the rates of the updates.
CallerCounts == {1, DEFAULT_LIMIT}
LockedRates == {1, 2}
NoCaller ==
    [pc |-> "idle", app_name |-> "a", count |-> 0, limit |-> 0, at |-> 0,
     bucket |-> <<0, 0>>, ok |-> FALSE, contended |-> FALSE]

\* The handler of a POST /ingest calls check_rate(app_name, count).
enter(r) ==
    /\ callers[r].pc = "idle"
    /\ \E app_name \in Apps, count \in CallerCounts :
          callers' = [callers EXCEPT ![r] =
              [@ EXCEPT !.pc = "quotas", !.app_name = app_name, !.count = count]]
    /\ UNCHANGED <<readers, writer, serial>>
    /\ UNCHANGED <<agentVars, rateVars, refreshVars, ingestVars, maskVars, limiterVars, mutexVars, tierVars,
                 searchVars, retryVars>>

\* self.quotas.read().await and the lookup of the limit: any number of readers,
\* and the guard lives to the end of check_rate.
quotas_read(r) ==
    /\ callers[r].pc = "quotas"
    /\ readers' = readers \cup {r}
    /\ callers' = [callers EXCEPT ![r] =
          [@ EXCEPT !.pc = "tokens", !.limit = limit_of(quotas, callers[r].app_name),
                    !.contended = writer # 0]]
    /\ UNCHANGED <<writer, serial>>
    /\ UNCHANGED <<agentVars, rateVars, refreshVars, ingestVars, maskVars, limiterVars, mutexVars, tierVars,
                 searchVars, retryVars>>

\* Faulty variant of write_granted: the lock on the token map is shared.
write_granted_shared(holder) == TRUE

\* RwLock::write: granted when no other task holds the lock.
write_granted(holder) == holder = 0

\* self.tokens.write().await
tokens_write(r) ==
    /\ callers[r].pc = "tokens"
    /\ write_granted(writer)
    /\ writer' = r
    /\ callers' = [callers EXCEPT ![r] = [@ EXCEPT !.pc = "locked"]]
    /\ UNCHANGED <<readers, serial>>
    /\ UNCHANGED <<agentVars, rateVars, refreshVars, ingestVars, maskVars, limiterVars, mutexVars, tierVars,
                 searchVars, retryVars>>

\* Instant::now() and tokens.get(app_name).copied().unwrap_or((limit, now))
refill(r) ==
    /\ callers[r].pc = "locked"
    /\ callers' = [callers EXCEPT ![r] =
          [@ EXCEPT !.pc = "refilled", !.at = now,
                    !.bucket = bucket_of(tokens, callers[r].app_name, callers[r].limit, now)]]
    /\ UNCHANGED <<readers, writer, serial>>
    /\ UNCHANGED <<agentVars, rateVars, refreshVars, ingestVars, maskVars, limiterVars, mutexVars, tierVars,
                 searchVars, retryVars>>

\* The comparison, the insert of the accepting branch, and the return, which
\* drops both guards.  The ledger `serial` runs the same call on its own map.
decide(r) ==
    /\ callers[r].pc = "refilled"
    /\ LET c == callers[r]
           refilled == new_tokens(c.bucket[1], c.bucket[2], c.limit, c.at)
           ok == refilled >= c.count
       IN  /\ tokens' = IF ok
                        THEN debit(tokens, c.app_name, refilled, c.count, c.bucket[2], c.at)
                        ELSE tokens
           /\ callers' = [callers EXCEPT ![r] = [@ EXCEPT !.pc = "done", !.ok = ok]]
           /\ serial' =
                 [tokens |-> check_rate_tokens(quotas, serial.tokens, c.app_name, c.count, c.at),
                  ok |-> [serial.ok EXCEPT ![r] =
                            check_rate_ok(quotas, serial.tokens, c.app_name, c.count, c.at)],
                  order |-> Append(serial.order, r)]
    /\ readers' = readers \ {r}
    /\ writer' = IF writer = r THEN 0 ELSE writer
    /\ UNCHANGED <<quotas, now, admitted, requests>>
    /\ UNCHANGED <<agentVars, refreshVars, ingestVars, maskVars, limiterVars, mutexVars, tierVars,
                 searchVars, retryVars>>

\* RateLimiter::update_quota: self.quotas.write().await is granted when no call
\* holds the read lock; insert and return follow without an await.
update_quota_locked ==
    /\ readers = {}
    /\ \E app_name \in RefreshedApps, rate \in LockedRates :
          quotas' = update_quota(quotas, QuotaConfig(app_name, rate))
    /\ UNCHANGED <<tokens, now, admitted, requests>>
    /\ UNCHANGED <<agentVars, refreshVars, ingestVars, maskVars, restVars>>

\* ------------------------------------ the Agent's buffer, guard by guard

\* The holder of the Mutex: a call of log, a flush loop, or nobody.
Free == <<"none", 0>>
LogTask(c) == <<"log", c>>
LoopTask(l) == <<"loop", l>>
NoLogCall == [pc |-> "idle", logs |-> <<>>]
otherAgentVars ==
    <<rateVars, refreshVars, ingestVars, maskVars, limiterVars, lockVars, tierVars,
      searchVars, retryVars>>

\* Faulty variant of lock_granted: the buffer is shared without mutual exclusion.
lock_granted_always(holder) == TRUE

\* Mutex::lock().await returns once no task holds the guard.
lock_granted(holder) == holder = Free

\* Faulty variant of drop_guard: the guard lives until its scope ends, after the
\* batch was sent.
drop_guard_at_scope_end(holder) == holder

\* drop(buffer), drop(buf), and the end of the guard's scope.
drop_guard(holder) == Free

\* A task makes the c-th call of agent.log, with entry number c.
log_call(c) ==
    /\ logcalls[c].pc = "idle"
    /\ \A k \in Entries : k < c => logcalls[k].pc # "idle"
    /\ logcalls' = [logcalls EXCEPT ![c].pc = "lock"]
    /\ UNCHANGED <<mutex, taken>>
    /\ UNCHANGED <<agentVars, otherAgentVars>>

\* let mut buffer = self.buffer.lock().await
log_lock(c) ==
    /\ logcalls[c].pc = "lock"
    /\ lock_granted(mutex)
    /\ mutex' = LogTask(c)
    /\ logcalls' = [logcalls EXCEPT ![c].pc = "push"]
    /\ UNCHANGED taken
    /\ UNCHANGED <<agentVars, otherAgentVars>>

\* buffer.push_back(entry)
log_push(c) ==
    /\ logcalls[c].pc = "push"
    /\ buffer' = Append(buffer, c)
    /\ logcalls' = [logcalls EXCEPT ![c].pc = "check"]
    /\ UNCHANGED <<mutex, taken>>
    /\ UNCHANGED <<batch_size, nextEntry, nextUuid, loops, batches, disk, hot, waited>>
    /\ UNCHANGED otherAgentVars

\* if buffer.len() >= self.batch_size; else the call returns, which drops the guard.
log_check(c) ==
    /\ logcalls[c].pc = "check"
    /\ IF Len(buffer) >= batch_size
       THEN /\ logcalls' = [logcalls EXCEPT ![c].pc = "drain"]
            /\ UNCHANGED mutex
       ELSE /\ logcalls' = [logcalls EXCEPT ![c].pc = "done"]
            /\ mutex' = drop_guard(mutex)
    /\ UNCHANGED taken
    /\ UNCHANGED <<agentVars, otherAgentVars>>

\* buffer.drain(..).collect(): the entries are moved into `logs` ...
log_collect(c) ==
    /\ logcalls[c].pc = "drain"
    /\ logcalls' = [logcalls EXCEPT ![c].pc = "clear", ![c].logs = buffer]
    /\ UNCHANGED <<mutex, taken>>
    /\ UNCHANGED <<agentVars, otherAgentVars>>

\* ... which leaves the buffer empty; then drop(buffer).
log_clear(c) ==
    /\ logcalls[c].pc = "clear"
    /\ buffer' = <<>>
    /\ mutex' = drop_guard(mutex)
    /\ logcalls' = [logcalls EXCEPT ![c].pc = "spawn"]
    /\ UNCHANGED taken
    /\ UNCHANGED <<batch_size, nextEntry, nextUuid, loops, batches, disk, hot, waited>>
    /\ UNCHANGED otherAgentVars

\* tokio::spawn(agent.send_batch(logs)): the call returns, the task goes on.
log_spawn(c) ==
    /\ logcalls[c].pc = "spawn"
    /\ send_batch(0, logcalls[c].logs)
    /\ logcalls' = [logcalls EXCEPT ![c].pc = "done", ![c].logs = <<>>]
    /\ UNCHANGED <<mutex, taken>>
    /\ UNCHANGED <<batch_size, buffer, nextEntry, loops, disk, hot, waited>>
    /\ UNCHANGED otherAgentVars

\* sleep(1 s) of flush loop l is over.
flush_wake(l) ==
    /\ loops[l].pc = "sleep"
    /\ loops[l].timer = 0
    /\ loops' = [loops EXCEPT ![l].pc = "lock"]
    /\ UNCHANGED <<batch_size, buffer, nextEntry, nextUuid, batches, disk, hot, waited>>
    /\ UNCHANGED nonAgentVars

\* let mut buf = buffer.lock().await
flush_lock(l) ==
    /\ loops[l].pc = "lock"
    /\ lock_granted(mutex)
    /\ mutex' = LoopTask(l)
    /\ loops' = [loops EXCEPT ![l].pc = "check"]
    /\ UNCHANGED <<logcalls, taken>>
    /\ UNCHANGED <<batch_size, buffer, nextEntry, nextUuid, batches, disk, hot, waited>>
    /\ UNCHANGED otherAgentVars

\* if !buf.is_empty(); else the iteration ends, which drops the guard.
flush_check(l) ==
    /\ loops[l].pc = "check"
    /\ IF buffer # <<>>
       THEN /\ loops' = [loops EXCEPT ![l].pc = "drain"]
            /\ UNCHANGED mutex
       ELSE /\ loops' = [loops EXCEPT ![l] =
                  [pc |-> "sleep", timer |-> FLUSH_INTERVAL, skipped |-> TRUE]]
            /\ mutex' = drop_guard(mutex)
    /\ UNCHANGED <<logcalls, taken>>
    /\ UNCHANGED <<batch_size, buffer, nextEntry, nextUuid, batches, disk, hot, waited>>
    /\ UNCHANGED otherAgentVars

\* buf.drain(..).collect(): the entries are moved into `logs` ...
flush_collect(l) ==
    /\ loops[l].pc = "drain"
    /\ taken' = [taken EXCEPT ![l] = buffer]
    /\ loops' = [loops EXCEPT ![l].pc = "clear"]
    /\ UNCHANGED <<logcalls, mutex>>
    /\ UNCHANGED <<batch_size, buffer, nextEntry, nextUuid, batches, disk, hot, waited>>
    /\ UNCHANGED otherAgentVars

\* ... which leaves the buffer empty; then drop(buf), and send_batch inline.
flush_clear(l) ==
    /\ loops[l].pc = "clear"
    /\ buffer' = <<>>
    /\ mutex' = drop_guard(mutex)
    /\ send_batch(l, taken[l])
    /\ taken' = [taken EXCEPT ![l] = <<>>]
    /\ loops' = [loops EXCEPT ![l] =
          IF taken[l] = <<>>
          THEN [pc |-> "sleep", timer |-> FLUSH_INTERVAL, skipped |-> FALSE]
          ELSE [pc |-> "send", timer |-> 0, skipped |-> FALSE]]
    /\ UNCHANGED logcalls
    /\ UNCHANGED <<batch_size, nextEntry, disk, hot, waited>>
    /\ UNCHANGED otherAgentVars

\* One second passes.  The code between lock() and the drop of the guard
\* awaits nothing: it takes no time.
second_unguarded ==
    /\ mutex = Free
    /\ tick

\* ------------------------------------------ the Storage: hot and cold tier

\* The day Storage starts on, and the days it runs.
FirstDay == COLD_DAYS + HOT_DAYS + 3
Days == FirstDay..(FirstDay + MaxDays)
\* The records that reach POST /store, by age on the first day: 40 days, 30
\* days, 10 days, 7 days and none.
Aged(id, age) == LogEntry_new(id, "a", "Info", FirstDay - age, <<>>, << >>)
TierRecords ==
    {Aged(1, COLD_DAYS + HOT_DAYS + 3), Aged(2, COLD_DAYS), Aged(3, HOT_DAYS + 3),
     Aged(4, HOT_DAYS), Aged(5, 0)}
HotOldCold == <<Aged(5, 0), Aged(3, HOT_DAYS + 3), Aged(1, COLD_DAYS + HOT_DAYS + 3)>>
TierBatches ==
    {LogBatch_new(<<r>>, 1) : r \in TierRecords} \cup {LogBatch_new(HotOldCold, 1)}
NoTick ==
    [pc |-> "sleep", now |-> FirstDay, reindexed |-> "none", hot_deleted |-> "none",
     cold_deleted |-> "none", found |-> FALSE, purged |-> FALSE, late |-> {}]
Answers == {"2xx", "non2xx", "error"}

\* now - Duration::days(7) and now - Duration::days(30)
seven_days_ago(t) == t - HOT_DAYS
thirty_days_ago(t) == t - COLD_DAYS

\* Faulty variant of older_than: the range query uses "lte".
not_newer_than(docs, bound) == {d \in docs : d.source.timestamp <= bound}

\* The range query "timestamp": {"lt": bound}.
older_than(docs, bound) == {d \in docs : d.source.timestamp < bound}

\* The engine's reindex: every selected document is put into the destination
\* under its _id.
reindex(source, dest, bound) ==
    LET moved == older_than(source, bound)
    IN  {d \in dest : d._id \notin {m._id : m \in moved}} \cup moved

\* The engine's delete_by_query.
delete_by_query(docs, bound) == docs \ older_than(docs, bound)

\* POST /store while the archiver runs.  The ids stored after the hot
\* delete-by-query of the tick in progress are noted (late), as is whether the
\* reindex found documents to move and the cold cleanup documents to delete.
store_request ==
    /\ \E batch \in TierBatches, answer \in Answers :
          /\ index' = store_logs_documents(index, batch, answer).index
          /\ archiver' =
                IF archiver.hot_deleted # "none" /\ archiver.pc # "sleep" /\ answer = "2xx"
                THEN [archiver EXCEPT !.late = @ \cup {r.id : r \in SeqToSet(batch.logs)}]
                ELSE archiver
    /\ UNCHANGED <<last, cold, today>>
    /\ UNCHANGED <<agentVars, rateVars, refreshVars, maskVars, limiterVars, lockVars, mutexVars,
                   searchVars, retryVars>>

\* sleep(3600 s) is over: the tick reads the clock and sends the reindex.
wake ==
    /\ archiver.pc = "sleep"
    /\ archiver' = [NoTick EXCEPT !.pc = "reindex", !.now = today]
    /\ UNCHANGED <<index, last, cold, today>>
    /\ UNCHANGED <<agentVars, rateVars, refreshVars, maskVars, limiterVars, lockVars, mutexVars,
                   searchVars, retryVars>>

\* Faulty variant of after_reindex: the hot delete-by-query is sent whatever the
\* reindex answered.
after_reindex_unchecked(answer) == "hot_delete"

\* match response: the hot delete-by-query is sent only after Ok with a 2xx
\* status; else the tick goes on to the cold cleanup.
after_reindex(answer) == IF answer = "2xx" THEN "hot_delete" ELSE "cold_delete"

\* The reindex from logs-hot into logs-cold ends: done, refused with a non-2xx
\* status, or lost to a transport error.
reindex_ends ==
    /\ archiver.pc = "reindex"
    /\ \E answer \in Answers :
          /\ cold' = IF answer = "2xx"
                     THEN reindex(index, cold, seven_days_ago(archiver.now))
                     ELSE cold
          /\ archiver' =
                [archiver EXCEPT !.pc = after_reindex(answer), !.reindexed = answer,
                                 !.found = older_than(index, seven_days_ago(archiver.now)) # {}]
    /\ UNCHANGED <<index, last, today>>
    /\ UNCHANGED <<agentVars, rateVars, refreshVars, maskVars, limiterVars, lockVars, mutexVars,
                   searchVars, retryVars>>

\* The delete-by-query on logs-hot ends; its failure is not even logged.
hot_delete_ends ==
    /\ archiver.pc = "hot_delete"
    /\ \E answer \in Answers :
          /\ index' = IF answer = "2xx"
                      THEN delete_by_query(index, seven_days_ago(archiver.now))
                      ELSE index
          /\ archiver' = [archiver EXCEPT !.pc = "cold_delete", !.hot_deleted = answer]
    /\ UNCHANGED <<last, cold, today>>
    /\ UNCHANGED <<agentVars, rateVars, refreshVars, maskVars, limiterVars, lockVars, mutexVars,
                   searchVars, retryVars>>

\* The delete-by-query on logs-cold ends, and with it the tick: the loop sleeps
\* again.
cold_delete_ends ==
    /\ archiver.pc = "cold_delete"
    /\ \E answer \in Answers :
          /\ cold' = IF answer = "2xx"
                     THEN delete_by_query(cold, thirty_days_ago(archiver.now))
                     ELSE cold
          /\ archiver' = [archiver EXCEPT !.pc = "sleep", !.cold_deleted = answer,
                                          !.purged = cold' # cold]
    /\ UNCHANGED <<index, last, today>>
    /\ UNCHANGED <<agentVars, rateVars, refreshVars, maskVars, limiterVars, lockVars, mutexVars,
                   searchVars, retryVars>>

\* A day passes at Storage.
next_day ==
    /\ today < FirstDay + MaxDays
    /\ today' = today + 1
    /\ UNCHANGED <<index, last, cold, archiver>>
    /\ UNCHANGED <<agentVars, rateVars, refreshVars, maskVars, limiterVars, lockVars, mutexVars,
                   searchVars, retryVars>>

\* ---------------------------------------------- the Storage: POST /search

\* Option<T>: None, or Some(x).
None == <<>>
Some(x) == <<x>>

\* The values of the attribute "u" ("user"): alice, Alice, alice smith.
USER == <<"u">>
ALICE == <<"a", "l", "i", "c", "e">>
ALICE_CAPITAL == <<"A", "l", "i", "c", "e">>
ALICE_SMITH == ALICE \o <<" ", "s", "m", "i", "t", "h">>

\* The records in logs-hot and in logs-cold; record 2 may be in both, as between
\* the reindex and the hot delete-by-query of a migration tick.
SearchRecords ==
    {LogEntry_new(1, "a", "Info", 1, <<>>, << >>),
     LogEntry_new(2, "a", "Error", 2, <<>>, (USER :> ALICE)),
     LogEntry_new(3, "a", "Error", 3, <<>>, (USER :> ALICE_SMITH)),
     LogEntry_new(4, "b", "Error", 2, <<>>, (USER :> ALICE_CAPITAL))}
ArchivedRecords ==
    {LogEntry_new(2, "a", "Error", 2, <<>>, (USER :> ALICE)),
     LogEntry_new(5, "a", "Error", 0, <<>>, << >>)}

\* The SearchQuery bodies.
SearchQueries ==
    [app_name : {None, Some("a")},
     level : {None, Some("Error")},
     from : {None, Some(2), Some(3)},
     to : {None, Some(2)},
     attributes : {None, Some((USER :> ALICE))},
     limit : {None} \cup {Some(n) : n \in 0..MaxLimit}]
NoSearch ==
    [query |-> [app_name |-> None, level |-> None, from |-> None, to |-> None,
                attributes |-> None, limit |-> None],
     results |-> <<>>, answered |-> FALSE]

\* The words the engine indexes for a string it mapped as text: the runs
\* between spaces, in lower case.
words(value) ==
    {to_lowercase(SubSeq(value, i, j)) :
        <<i, j>> \in {p \in (DOMAIN value) \X (DOMAIN value) :
                       /\ p[1] <= p[2]
                       /\ \A k \in p[1]..p[2] : value[k] # " "
                       /\ (p[1] = 1 \/ value[p[1] - 1] = " ")
                       /\ (p[2] = Len(value) \/ value[p[2] + 1] = " ")}}

\* {"term": {field: value}} on a field mapped as keyword: the values are equal.
term_keyword(field, value) == field = value

\* {"term": {"attributes.<key>": value}}: the index maps "attributes" as an
\* object without properties, so the engine maps each string under it as text
\* (with a .keyword subfield the query does not name), and the clause holds
\* when value is one of the indexed words.
term_attribute(attributes, key, value) ==
    key \in DOMAIN attributes /\ value \in words(attributes[key])

\* {"range": {"timestamp": {"gte": from, "lte": to}}}
range(timestamp, from, to) ==
    /\ from # None => timestamp >= from[1]
    /\ to # None => timestamp <= to[1]

\* The bool query of must_clauses (match_all when there is none).
must(source, query) ==
    /\ query.app_name # None => term_keyword(source.app_name, query.app_name[1])
    /\ query.level # None => term_keyword(source.level, query.level[1])
    /\ range(source.timestamp, query.from, query.to)
    /\ query.attributes # None =>
          \A key \in DOMAIN query.attributes[1] :
             term_attribute(source.attributes, key, query.attributes[1][key])

\* "sort": [{"timestamp": {"order": "desc"}}] and "size": the first `size` hits
\* by descending timestamp, ties in any order.
RECURSIVE top_hits(_, _)
top_hits(hits, size) ==
    IF size = 0 \/ hits = {} THEN {<<>>}
    ELSE LET newest == {h \in hits :
                          \A g \in hits : g.doc.source.timestamp <= h.doc.source.timestamp}
         IN  UNION {{<<h>> \o rest : rest \in top_hits(hits \ {h}, size - 1)} : h \in newest}

\* query.limit.unwrap_or(100)
size_of(query) == IF query.limit = None THEN DEFAULT_SIZE ELSE query.limit[1]

\* SearchParts::Index(&[HOT_INDEX, COLD_INDEX]): the hits of both indices.
hits_of(hot_docs, cold_docs, query) ==
    {[index |-> "logs-hot", doc |-> d] : d \in {x \in hot_docs : must(x.source, query)}}
        \cup {[index |-> "logs-cold", doc |-> d] : d \in {x \in cold_docs : must(x.source, query)}}

\* parse_log_entry: the LogEntry of a hit's _source.
parse_log_entry(source) ==
    LogEntry_new(source.id, source.app_name, source.level, source.timestamp,
                 source.message, source.attributes)

\* LogStorage::search and search_logs: the parsed hits, or no record when the
\* engine was not reached or its answer has no hits array.
search_request ==
    /\ \E query \in SearchQueries, answer \in {"hits", "error"} :
       \E hits \in IF answer = "hits"
                   THEN top_hits(hits_of(index, cold, query), size_of(query))
                   ELSE {<<>>} :
          found' = [query |-> query,
                    results |-> [i \in DOMAIN hits |-> parse_log_entry(hits[i].doc.source)],
                    answered |-> TRUE]
    /\ UNCHANGED <<agentVars, rateVars, refreshVars, ingestVars, maskVars, limiterVars,
                   lockVars, mutexVars, tierVars, retryVars>>

\* ------------------------------- the Agent's retries against POST /ingest

\* The app of the batch, the quotas a refresh may have left for it, and the
\* sizes of the batch.
RetriedApp == "a"
RetryQuotas == {(RetriedApp :> QuotaConfig(RetriedApp, r)) : r \in 1..MaxQuota}
NoDelivery ==
    [pc |-> "send", attempt |-> 1, timer |-> 0, count |-> 1, statuses |-> <<>>,
     others |-> 0, charged |-> 0]

\* Faulty variant of ingest_tokens: a failed forward gives the tokens back.
ingest_tokens_refunded(q, tk, app_name, count, t, status) ==
    IF status = 500 THEN tk ELSE check_rate_tokens(q, tk, app_name, count, t)

\* The token map ingest_logs leaves for a batch of count records: check_rate
\* is its only call on the limiter, before the forward, and no arm of the match
\* on the forward's result touches the limiter.
ingest_tokens(q, tk, app_name, count, t, status) ==
    check_rate_tokens(q, tk, app_name, count, t)

\* The tokens a request took from the bucket of app_name.
taken_from(q, tk, after, app_name, t) ==
    LET limit == limit_of(q, app_name)
        bucket == bucket_of(tk, app_name, limit, t)
    IN  IF after = tk THEN 0
        ELSE new_tokens(bucket[1], bucket[2], limit, t) - after[app_name][1]

\* One attempt of send_batch reaches ingest_logs, which answers it: 429 from
\* the quota check, or else the status of the forward (store_logs answers 200
\* when it runs; Storage may answer 413 without running it, or not be reached).
\* The Agent returns on success, sleeps 2^attempt seconds before the next
\* attempt, and gives up (save_to_disk) after the third.
deliver ==
    /\ delivery.pc = "send"
    /\ \E fate \in {"answered", "rejected", "refused"} :
          LET count == delivery.count
              ok == check_rate_ok(quotas, tokens, RetriedApp, count, now)
              status == IF ~ok THEN 429
                        ELSE forward_status(fate # "refused",
                                            IF fate = "answered" THEN 200 ELSE 413)
              after == ingest_tokens(quotas, tokens, RetriedApp, count, now, status)
          IN  /\ tokens' = after
              /\ delivery' =
                    [delivery EXCEPT
                       !.statuses = Append(@, status),
                       !.charged = @ + taken_from(quotas, tokens, after, RetriedApp, now),
                       !.pc = IF is_success(status) \/ delivery.attempt >= MAX_ATTEMPTS
                              THEN "done" ELSE "backoff",
                       !.timer = IF is_success(status) \/ delivery.attempt >= MAX_ATTEMPTS
                                 THEN 0
                                 ELSE Pow(BACKOFF_BASE, delivery.attempt) * TicksPerSecond]
    /\ UNCHANGED <<quotas, now, admitted, requests>>
    /\ UNCHANGED <<agentVars, refreshVars, ingestVars, maskVars, limiterVars, lockVars,
                   mutexVars, tierVars, searchVars>>

\* 1/TicksPerSecond seconds of the backoff sleep pass; at its end the next
\* attempt starts.
backoff_tick ==
    /\ delivery.pc = "backoff"
    /\ now' = now + 1
    /\ delivery' = IF delivery.timer = 1
                   THEN [delivery EXCEPT !.timer = 0, !.pc = "send", !.attempt = @ + 1]
                   ELSE [delivery EXCEPT !.timer = @ - 1]
    /\ UNCHANGED <<quotas, tokens, admitted, requests>>
    /\ UNCHANGED <<agentVars, refreshVars, ingestVars, maskVars, limiterVars, lockVars,
                   mutexVars, tierVars, searchVars>>

\* Another batch of the same app reaches ingest_logs while the Agent's batch
\* is on its way.
other_ingest ==
    /\ delivery.pc # "done"
    /\ delivery.others < MaxOthers
    /\ \E count \in 1..MaxQuota, status \in {200, 500} :
          tokens' = ingest_tokens(quotas, tokens, RetriedApp, count, now, status)
    /\ delivery' = [delivery EXCEPT !.others = @ + 1]
    /\ UNCHANGED <<quotas, now, admitted, requests>>
    /\ UNCHANGED <<agentVars, refreshVars, ingestVars, maskVars, limiterVars, lockVars,
                   mutexVars, tierVars, searchVars>>

\* ------------------------------------------------------ specifications

\* LogAgent::new, and empty indices.
AgentInit ==
    /\ buffer = <<>>
    /\ nextEntry = 1
    /\ nextUuid = 1
    /\ loops = [l \in Loops |-> [pc |-> "off", timer |-> 0, skipped |-> FALSE]]
    /\ batches = <<>>
    /\ disk = {}
    /\ hot = [id \in Entries |-> 0]
    /\ waited = [e \in Entries |-> 0]

\* RateLimiter::new
RateInit ==
    /\ quotas = << >>
    /\ tokens = << >>
    /\ now = 0
    /\ admitted = [a \in Apps |-> [t \in Instants |-> 0]]
    /\ requests = 0

\* ConfigStore::new, and the refresh task in its first sleep.
RefreshInit ==
    /\ config = ConfigStore_new
    /\ refresh = [pc |-> "sleep", timer |-> REFRESH_INTERVAL, latency |-> 0,
                  body |-> NoBody, outcome |-> "none", failed |-> FALSE]
    /\ watch = [on |-> FALSE, app_name |-> "a", rate |-> 0, age |-> 0]

\* An empty logs-hot and no request yet.
IngestInit ==
    /\ index = {}
    /\ last = NoExchange

MaskInit ==
    /\ entry = LogEntry_new(1, "a", "Info", 0, <<>>, << >>)
    /\ passes = 0

\* No check_rate call yet.
LimiterInit == call = NoCall

\* No call of check_rate under way, and both locks free.
LockInit ==
    /\ callers = [r \in Callers |-> NoCaller]
    /\ readers = {}
    /\ writer = 0
    /\ serial = [tokens |-> << >>, ok |-> [r \in Callers |-> FALSE], order |-> <<>>]

\* No call of log under way, and the guard free.
MutexInit ==
    /\ logcalls = [c \in Entries |-> NoLogCall]
    /\ mutex = Free
    /\ taken = [l \in Loops |-> <<>>]

\* An empty logs-cold, and the archiver in its first sleep.
TierInit ==
    /\ cold = {}
    /\ archiver = NoTick
    /\ today = FirstDay

\* No search yet.
SearchInit == found = NoSearch

\* A batch the Agent has not sent yet.
RetryInit == delivery = NoDelivery

RestInit ==
    /\ LimiterInit
    /\ LockInit
    /\ MutexInit
    /\ TierInit
    /\ SearchInit
    /\ RetryInit

Init ==
    /\ batch_size \in 0..MaxBatchSize
    /\ AgentInit
    /\ RateInit
    /\ RefreshInit
    /\ IngestInit
    /\ MaskInit
    /\ RestInit

\* The Agent with its downstream.
Next ==
    \/ log
    \/ start_flush_loop
    \/ \E l \in Loops : flush_tick(l)
    \/ \E b \in Entries : respond(b)
    \/ \E b \in Entries : retry(b)
    \/ \E b \in Entries : save_to_disk(b)
    \/ tick

Spec == Init /\ [][Next]_vars

\* The tokio runtime runs every task that is ready, timers fire, and every
\* HTTP request and file write ends (with an answer or an error).
Fairness ==
    /\ WF_vars(tick)
    /\ \A l \in Loops : WF_vars(flush_tick(l))
    /\ \A b \in Entries : WF_vars(respond(b))
    /\ \A b \in Entries : WF_vars(retry(b))
    /\ \A b \in Entries : WF_vars(save_to_disk(b))

FairSpec == Spec /\ Fairness

\* The rate limiter of Ingestion under requests and time, with the quota table
\* as a refresh from Config left it: any app may have an entry.
QuotaTables ==
    UNION {[S -> {[app_name |-> a, logs_per_second |-> r] : a \in Apps, r \in QuotaValues}]
             : S \in SUBSET Apps}

RateInitAll ==
    /\ batch_size = MaxBatchSize
    /\ AgentInit
    /\ quotas \in {q \in QuotaTables : \A a \in DOMAIN q : q[a].app_name = a}
    /\ tokens = << >>
    /\ now = 0
    /\ admitted = [a \in Apps |-> [t \in Instants |-> 0]]
    /\ requests = 0
    /\ RefreshInit
    /\ IngestInit
    /\ MaskInit
    /\ RestInit

RateNext ==
    \/ request
    \/ clock

RateSpec == RateInitAll /\ [][RateNext]_vars

\* The quota refresh of Ingestion against Config, second by second.
RefreshInitAll ==
    /\ batch_size = MaxBatchSize
    /\ AgentInit
    /\ RateInit
    /\ RefreshInit
    /\ IngestInit
    /\ MaskInit
    /\ RestInit

RefreshNext ==
    \/ post_quota
    \/ send_get
    \/ serve_get
    \/ get_fails
    \/ receive
    \/ second

RefreshSpec == RefreshInitAll /\ [][RefreshNext]_vars

\* Timers fire and every GET ends, with a response or an error.
RefreshFairness ==
    /\ WF_vars(second)
    /\ WF_vars(send_get)
    /\ WF_vars(serve_get \/ get_fails)
    /\ WF_vars(receive)

RefreshFairSpec == RefreshSpec /\ RefreshFairness

\* POST /ingest, request by request, with the quota table as a refresh left it:
\* empty, or with one record per second for app a.
IngestInitAll ==
    /\ batch_size = MaxBatchSize
    /\ AgentInit
    /\ quotas \in {<< >>, ("a" :> QuotaConfig("a", 1))}
    /\ tokens = << >>
    /\ now = 0
    /\ admitted = [a \in Apps |-> [t \in Instants |-> 0]]
    /\ requests = 0
    /\ RefreshInit
    /\ IngestInit
    /\ MaskInit
    /\ RestInit

IngestNext ==
    \/ ingest
    \/ clock

IngestSpec == IngestInitAll /\ [][IngestNext]_vars

\* mask_secrets, pass after pass over one entry.
MaskInitAll ==
    /\ batch_size = MaxBatchSize
    /\ AgentInit
    /\ RateInit
    /\ RefreshInit
    /\ IngestInit
    /\ entry \in LogEntries
    /\ passes = 0
    /\ RestInit

MaskNext == redact

MaskSpec == MaskInitAll /\ [][MaskNext]_vars

\* check_rate under quota updates and time, from RateLimiter::new on.
LimiterInitAll ==
    /\ batch_size = MaxBatchSize
    /\ AgentInit
    /\ RateInit
    /\ RefreshInit
    /\ IngestInit
    /\ MaskInit
    /\ RestInit

LimiterNext ==
    \/ check_rate_call
    \/ update_quota_call
    \/ clock

LimiterSpec == LimiterInitAll /\ [][LimiterNext]_vars

\* Concurrent calls of check_rate, with quota updates and time between their
\* steps.
LockInitAll ==
    /\ batch_size = MaxBatchSize
    /\ AgentInit
    /\ RateInit
    /\ RefreshInit
    /\ IngestInit
    /\ MaskInit
    /\ RestInit

LockNext ==
    \/ \E r \in Callers : enter(r)
    \/ \E r \in Callers : quotas_read(r)
    \/ \E r \in Callers : tokens_write(r)
    \/ \E r \in Callers : refill(r)
    \/ \E r \in Callers : decide(r)
    \/ update_quota_locked
    \/ clock

LockSpec == LockInitAll /\ [][LockNext]_vars

\* The Agent with concurrent calls of log and flush loops, step by step around
\* the guard of the buffer.
MutexNext ==
    \/ \E c \in Entries : log_call(c)
    \/ \E c \in Entries : log_lock(c)
    \/ \E c \in Entries : log_push(c)
    \/ \E c \in Entries : log_check(c)
    \/ \E c \in Entries : log_collect(c)
    \/ \E c \in Entries : log_clear(c)
    \/ \E c \in Entries : log_spawn(c)
    \/ start_flush_loop
    \/ \E l \in Loops : flush_wake(l)
    \/ \E l \in Loops : flush_lock(l)
    \/ \E l \in Loops : flush_check(l)
    \/ \E l \in Loops : flush_collect(l)
    \/ \E l \in Loops : flush_clear(l)
    \/ \E b \in Entries : respond(b)
    \/ \E b \in Entries : retry(b)
    \/ \E b \in Entries : save_to_disk(b)
    \/ second_unguarded

MutexSpec == Init /\ [][MutexNext]_vars

\* A task that is ready runs, and a task that waits for the guard gets it (the
\* Mutex is fair).  Nothing is assumed of timers, HTTP requests and file writes.
MutexFairness ==
    /\ \A c \in Entries :
          /\ SF_vars(log_lock(c))
          /\ WF_vars(log_push(c)) /\ WF_vars(log_check(c)) /\ WF_vars(log_collect(c))
          /\ WF_vars(log_clear(c)) /\ WF_vars(log_spawn(c))
    /\ \A l \in Loops :
          /\ WF_vars(flush_check(l)) /\ WF_vars(flush_collect(l))
          /\ WF_vars(flush_clear(l))

MutexFairSpec == MutexSpec /\ MutexFairness

\* The archiver of Storage with POST /store between its steps.
TierNext ==
    \/ store_request
    \/ wake
    \/ reindex_ends
    \/ hot_delete_ends
    \/ cold_delete_ends
    \/ next_day

TierInitAll ==
    /\ batch_size = MaxBatchSize
    /\ AgentInit
    /\ RateInit
    /\ RefreshInit
    /\ IngestInit
    /\ MaskInit
    /\ RestInit

TierSpec == TierInitAll /\ [][TierNext]_vars

\* Timers fire and every request to the engine ends.
TierFairness ==
    /\ WF_vars(wake)
    /\ WF_vars(reindex_ends)
    /\ WF_vars(hot_delete_ends)
    /\ WF_vars(cold_delete_ends)

TierFairSpec == TierSpec /\ TierFairness

\* POST /search of Storage over the tiers as stores and migration left them.
SearchInitAll ==
    /\ batch_size = MaxBatchSize
    /\ AgentInit
    /\ RateInit
    /\ RefreshInit
    /\ index \in SUBSET {document(r) : r \in SearchRecords}
    /\ last = NoExchange
    /\ MaskInit
    /\ LimiterInit
    /\ LockInit
    /\ MutexInit
    /\ cold \in SUBSET {document(r) : r \in ArchivedRecords}
    /\ archiver = NoTick
    /\ today = FirstDay
    /\ SearchInit
    /\ RetryInit

SearchNext == search_request

SearchSpec == SearchInitAll /\ [][SearchNext]_vars

\* send_batch of one batch against ingest_logs, with a quota for the app.
RetryInitAll ==
    /\ batch_size = MaxBatchSize
    /\ AgentInit
    /\ quotas \in RetryQuotas
    /\ tokens = << >>
    /\ now = 0
    /\ admitted = [a \in Apps |-> [t \in Instants |-> 0]]
    /\ requests = 0
    /\ RefreshInit
    /\ IngestInit
    /\ MaskInit
    /\ LimiterInit
    /\ LockInit
    /\ MutexInit
    /\ TierInit
    /\ SearchInit
    /\ \E count \in 1..MaxBatchSize : delivery = [NoDelivery EXCEPT !.count = count]

RetryNext ==
    \/ deliver
    \/ backoff_tick
    \/ other_ingest

RetrySpec == RetryInitAll /\ [][RetryNext]_vars

\* ------------------------------------------------------------- claims

Batches == DOMAIN batches
LogsOf(b) == SeqToSet(batches[b].batch.logs)
Acked(b) ==
    /\ batches[b].pc = "done"
    /\ batches[b].results # <<>>
    /\ batches[b].results[Len(batches[b].results)] = "ok"
Logged(e) == e < nextEntry
\* Every payload of batch b that left the Agent: the POST bodies and the spill file.
Payloads(b) ==
    {batches[b].posts[i].json : i \in DOMAIN batches[b].posts}
        \cup {f.content.json : f \in {g \in disk : g.name = spill_file(batches[b].batch).name}}
AllErr(n) == [i \in 1..n |-> "err"]
IsPrefix(s, t) == Len(s) <= Len(t) /\ \A i \in DOMAIN s : s[i] = t[i]
Increasing(s) == \A i, j \in DOMAIN s : i < j => s[i] < s[j]
RECURSIVE SumOver(_, _)
SumOver(f, S) ==
    IF S = {} THEN 0
    ELSE LET x == CHOOSE y \in S : TRUE IN f[x] + SumOver(f, S \ {x})

\* An entry is settled once its batch was acknowledged or written to disk.
Settled(e) ==
    \E b \in Batches :
       /\ e \in LogsOf(b)
       /\ batches[b].pc = "done"
       /\ (Acked(b) \/ (batches[b].spill = "ok" /\ spill_file(batches[b].batch) \in disk))
NoSpillError == \A b \in Batches : batches[b].spill # "err"
C2_ExactlyOnceUnderSuccess ==
    (\A b \in Batches : \A i \in DOMAIN batches[b].results : batches[b].results[i] = "ok")
        => \A b \in Batches : Acked(b) => \A e \in LogsOf(b) : hot[e] = 1

\* The retry record of batch b: attempts, answers, sleeps and spill.
C3_Retry(b) ==
    LET t == batches[b]
    IN  /\ Len(t.posts) <= 3
        /\ \A i \in DOMAIN t.results : i < Len(t.posts) => t.results[i] = "err"
        /\ (t.pc = "post") <=> (Len(t.results) = Len(t.posts) - 1)
        /\ t.pc # "post" => Len(t.results) = Len(t.posts)
        /\ IsPrefix(t.sleeps, <<2, 4>>)
        /\ Len(t.sleeps) = (IF t.pc = "backoff" THEN Len(t.posts) ELSE Len(t.posts) - 1)
        /\ t.pc = "backoff" => t.timer <= t.sleeps[Len(t.sleeps)]
        /\ (t.pc = "spill" \/ t.spill # "none") <=> (t.results = AllErr(3))
        /\ t.spill # "none" => t.pc = "done"
\* C3: a batch is POSTed at most 3 times, never after its first 2xx answer, with
\* sleeps of 2 s and 4 s between the attempts; it is spilled exactly when all 3
\* attempts failed, and never POSTed after the spill.
C3_BoundedAttemptsThenSpill ==
    /\ [](\A b \in Batches : C3_Retry(b))
    /\ [][\A b \in Batches :
            /\ (batches[b].spill # "none" \/ Acked(b))
                  => batches'[b].posts = batches[b].posts
            /\ batches'[b].posts # batches[b].posts
                  => batches[b].pc = "backoff" /\ batches[b].timer = 0
            /\ (batches'[b].pc = "backoff" /\ batches[b].pc # "backoff")
                  => batches'[b].timer = batches'[b].sleeps[Len(batches'[b].sleeps)]
         ]_vars
C3_Witness ==
    \E b, c \in Batches :
       /\ batches[b].spill = "err" /\ batches[b].sleeps = <<2, 4>>
       /\ Acked(c) /\ Len(batches[c].posts) = 2

\* C4: every POST and the spill file of a batch carry the batch_id and the
\* contents the batch got when it left the buffer, and two batches never
\* share a batch_id.
C4_BatchIdentity ==
    /\ \A b \in Batches : Payloads(b) = {batches[b].batch}
    /\ \A b, c \in Batches :
          b # c => \A x \in Payloads(b), y \in Payloads(c) : x.batch_id # y.batch_id
C4_Witness ==
    \E b, c \in Batches :
       /\ b # c
       /\ Len(batches[b].posts) = 3 /\ batches[b].spill = "ok"
       /\ Len(batches[c].posts) >= 2

\* C5: no batch that is POSTed or spilled has zero records.
C5_NoEmptyBatch ==
    \A b \in Batches : \A x \in Payloads(b) \cup {batches[b].batch} : Len(x.logs) > 0
C5_Witness ==
    /\ batch_size = 0
    /\ \E l \in Loops : loops[l].skipped
    /\ \E b \in Batches : batches[b].spill = "ok"

\* C6: for batch_size >= 1 the buffer holds fewer than batch_size entries between
\* operations, a batch drained by log has exactly batch_size records, and no
\* batch has more than batch_size records.
C6_BatchSizeBound ==
    batch_size >= 1 =>
        /\ Len(buffer) < batch_size
        /\ \A b \in Batches :
              /\ batches[b].owner = 0 => Len(batches[b].batch.logs) = batch_size
              /\ \A x \in Payloads(b) : Len(x.logs) <= batch_size
C6_Witness ==
    /\ batch_size = 2
    /\ \E b \in Batches : batches[b].owner = 0 /\ Len(batches[b].posts) >= 1

\* C7: under a running flush loop an entry waits at most one flush interval in
\* the buffer, whatever the loop's earlier batch is doing.
C7_FlushEverySecond ==
    \A e \in SeqToSet(buffer) : waited[e] <= FLUSH_INTERVAL

\* C8: however often start_flush_loop is called, a single flush timer runs.
C8_SingleFlushLoop ==
    Cardinality({l \in Loops : loops[l].pc # "off"}) <= 1

\* C9: the records of every POSTed or spilled batch are in the order of their
\* log calls.
C9_FifoOrder ==
    \A b \in Batches : \A x \in Payloads(b) : Increasing(x.logs)
C9_Witness ==
    \E b \in Batches :
       /\ Len(batches[b].batch.logs) >= 2
       /\ Len(batches[b].posts) = 3
       /\ batches[b].spill = "ok"

\* The instants of the closed window of one second that starts at t.
Window(t) == {u \in Instants : t <= u /\ u <= t + TicksPerSecond}
\* C10: in every window of one second, check_rate admits at most 2R records for
\* an app whose limit is R.
C10_AtMostTwiceTheQuota ==
    \A a \in Apps : \A t \in Instants :
       SumOver(admitted[a], Window(t)) <= 2 * limit_of(quotas, a)
C10_Witness ==
    \E a \in Apps : \E t \in Instants :
       /\ limit_of(quotas, a) = 2
       /\ SumOver(admitted[a], Window(t)) = 4
       /\ admitted[a][t] = 2

\* C11: more than 10 seconds after a quota was POSTed to Config, the limit that
\* check_rate reads for that app is the POSTed logs_per_second.
C11_EffectiveWithinTenSeconds ==
    (watch.on /\ watch.age > REFRESH_INTERVAL)
        => limit_of(quotas, watch.app_name) = watch.rate

\* A refresh ends in an error: Config was not reached or the body did not parse.
C12_Fails ==
    /\ refresh.pc \in {"get", "resp"}
    /\ refresh'.pc \notin {"get", "resp"}
    /\ refresh'.outcome # "ok"
C12_Succeeds ==
    /\ refresh.pc = "resp"
    /\ refresh'.pc \notin {"get", "resp"}
    /\ refresh'.outcome = "ok"
\* C12: a failed refresh leaves the quota table and the token buckets as they
\* were and puts the task back to its sleep of 10 seconds; the task never ends,
\* issues its next GET after every failure, and a refresh that succeeds
\* upserts every entry it received.
C12_FailedRefreshIsHarmless ==
    /\ [][C12_Fails => /\ quotas' = quotas
                       /\ tokens' = tokens
                       /\ refresh'.pc = "sleep"
                       /\ refresh'.timer = REFRESH_INTERVAL]_vars
    /\ [][C12_Succeeds => /\ \A c \in refresh.body.configs : quotas'[c.app_name] = c
                          /\ \A a \in DOMAIN quotas :
                                (\A c \in refresh.body.configs : c.app_name # a)
                                    => quotas'[a] = quotas[a]
                          /\ refresh'.timer = REFRESH_INTERVAL]_vars
    /\ [](refresh.pc \in {"sleep", "get", "resp"})
    /\ (refresh.pc = "sleep" /\ refresh.outcome \in {"unreachable", "unparsable"})
          ~> (refresh.pc = "get")
C12_Witness ==
    /\ refresh.failed
    /\ refresh.outcome = "ok"
    /\ refresh.pc = "sleep"
    /\ watch.on
    /\ watch.age = WatchCap
    /\ limit_of(quotas, watch.app_name) = watch.rate
    /\ watch.rate # DEFAULT_LIMIT

\* A POST /ingest was handled in this step.
Handled == requests' = requests + 1
\* mask_secrets, record by record.
Masked == [e \in IngestEntries |-> mask_secrets(e)]

\* C13: a POST /ingest answered 400 or 429 changes no token bucket and no
\* document, and nothing is POSTed to /store for it.
C13_RejectedHasNoSideEffects ==
    [][(Handled /\ last'.status \in {400, 429})
          => /\ tokens' = tokens
             /\ index' = index
             /\ admitted' = admitted
             /\ last'.forwarded = <<>>
             /\ ~last'.store.called]_vars
C13_Witness ==
    /\ last.status = 429
    /\ "a" \in DOMAIN tokens
    /\ tokens["a"][2] < now
    /\ index # {}

\* C14: what Ingestion POSTs to /store is the batch of the request with
\* mask_secrets applied once to every record; the documents of the hot index are
\* redacted records; a request answered 400 or 429 forwards nothing.
C14_RedactedOnceBeforeForward ==
    /\ \A i \in DOMAIN last.forwarded :
          LET sent == last.forwarded[i]
              got == last.body.json
          IN  /\ sent.batch_id = got.batch_id
              /\ Len(sent.logs) = Len(got.logs)
              /\ \A k \in DOMAIN sent.logs : sent.logs[k] = Masked[got.logs[k]]
    /\ \A d \in index : \E e \in IngestEntries : d.source = Masked[e]
    /\ last.forwarded # <<>> => last.status \in {200, 500}
    /\ last.status \in {400, 429} => last.forwarded = <<>>
C14_Witness ==
    /\ last.status = 200
    /\ \E i \in DOMAIN last.forwarded : \E k \in DOMAIN last.forwarded[i].logs :
          /\ last.body.json.logs[k].message = PASSWORD \o <<"=", "x">>
          /\ last.forwarded[i].logs[k].message = PASSWORD_MASK
    /\ \E d \in index : d.source.attributes = (TOKEN :> ATTR_MASK)

\* C15: for a batch that passed the quota check, the answer is 200 exactly when
\* Storage answered the POST to /store with a 2xx status and 500 otherwise
\* (another status, or Storage not reached), and /store is POSTed to once.
C15_StatusFollowsStorage ==
    /\ Len(last.forwarded) <= 1
    /\ last.forwarded # <<>> =>
          /\ last.status \in {200, 500}
          /\ (last.status = 200)
                <=> (last.fate # "refused" /\ is_success(last.storage_status))
C15_Witness ==
    /\ last.fate = "rejected"
    /\ last.status = 500
    /\ last.forwarded # <<>>
    /\ requests >= 2
    /\ index # {}

\* C16: POST /store answers 200 only if the bulk insert got a 2xx answer.
C16_OkOnlyIfBulkSucceeded ==
    (last.store.called /\ last.store.status = 200) => last.store.answer = "2xx"

\* The last record with the given id in a sequence of records.
LastWithId(logs, id) ==
    logs[Max({k \in DOMAIN logs : logs[k].id = id})]
\* C20: the hot index holds at most one document per record id, under that id;
\* after a store whose bulk insert succeeded it holds exactly one document for
\* every record id of the batch, built from the batch's record, also when the
\* id was in the index before.
C20_UpsertById ==
    /\ \A d \in index : d._id = d.source.id
    /\ \A d, f \in index : d.source.id = f.source.id => d = f
    /\ (last.store.called /\ last.store.answer = "2xx") =>
          \A i \in DOMAIN last.forwarded : \A k \in DOMAIN last.forwarded[i].logs :
             LET logs == last.forwarded[i].logs
                 id == logs[k].id
             IN  {d \in index : d.source.id = id} = {document(LastWithId(logs, id))}
C20_Witness ==
    /\ last.store.called
    /\ last.store.answer = "2xx"
    /\ last.replaced # {}
    /\ Cardinality(index) = 2
    /\ \E d \in index : d._id = 1 /\ d.source.app_name = "b"

\* One more pass of mask_secrets has run in this step.
Masking == passes' = passes + 1

\* C17: a second pass of mask_secrets leaves the entry as the first pass left it.
C17_Idempotent ==
    passes >= 1 => mask_secrets(entry) = entry

\* The keys of Keys whose lowercased form contains password, token or secret.
SensitiveKeys ==
    {<<"u", "_">> \o PASSWORD, <<"T", "O", "K", "E", "N">>, <<"S", "e", "c", "r", "e", "t", "s">>}
\* C18: a pass of mask_secrets leaves id, app_name, level, timestamp and the
\* set of attribute keys as they were, sets the value of every key that
\* contains password, token or secret (in any case) to "***", and leaves the
\* value of every other key as it was.
C18_FrameOfRedaction ==
    [][Masking =>
          /\ entry'.id = entry.id
          /\ entry'.app_name = entry.app_name
          /\ entry'.level = entry.level
          /\ entry'.timestamp = entry.timestamp
          /\ DOMAIN entry' = DOMAIN entry
          /\ DOMAIN entry'.attributes = DOMAIN entry.attributes
          /\ \A key \in DOMAIN entry.attributes :
                entry'.attributes[key] =
                    IF key \in SensitiveKeys THEN <<"*", "*", "*">>
                    ELSE entry.attributes[key]]_vars
C18_Witness ==
    /\ passes = 1
    /\ entry.message = PASSWORD_MASK
    /\ DOMAIN entry.attributes = Keys
    /\ entry.attributes[<<"n", "a", "m", "e">>] = <<"v">>
    /\ entry.attributes[<<"p", "a", "s", "s">>] = <<"v">>
    /\ entry.attributes[<<"T", "O", "K", "E", "N">>] = <<"*", "*", "*">>

\* The leftmost non-overlapping matches of pattern p in s, as <<first, last>>.
RECURSIVE MatchesFrom(_, _, _)
MatchesFrom(p, s, pos) ==
    LET starts == {i \in pos..Len(s) : pattern_match(p, s, i) # 0}
    IN  IF starts = {} THEN {}
        ELSE LET i == CHOOSE x \in starts : \A y \in starts : x <= y
             IN  {<<i, pattern_match(p, s, i)>>} \cup MatchesFrom(p, s, pattern_match(p, s, i) + 1)
Matches(p, s) == MatchesFrom(p, s, 1)
\* The message as pattern p finds it: after the patterns before p.
RECURSIVE Stage(_, _)
Stage(message, p) ==
    IF p = 1 THEN message ELSE replace_all(p - 1, Stage(message, p - 1))
\* out is s with exactly the matches of pattern p replaced: the text between
\* the matches is kept, moved by the growth of the matches before it.
IsReplaced(s, p, out) ==
    LET M == Matches(p, s)
        r == replacement(p)
        growth == [m \in M |-> Len(r) - (m[2] - m[1] + 1)]
        Shift(k) == SumOver(growth, {m \in M : m[2] < k})
    IN  /\ Len(out) = Len(s) + Shift(Len(s) + 1)
        /\ \A k \in DOMAIN s :
              (\A m \in M : k < m[1] \/ k > m[2]) => out[k + Shift(k)] = s[k]
        /\ \A m \in M :
              SubSeq(out, m[1] + Shift(m[1]), m[1] + Shift(m[1]) + Len(r) - 1) = r
\* The four rules in order, each replacing all its matches.
RulesInOrder(before, after) ==
    /\ after = Stage(before, NumPatterns + 1)
    /\ \A p \in 1..NumPatterns : IsReplaced(Stage(before, p), p, Stage(before, p + 1))
\* The secret of a match: the card number, the value after the separator and
\* the spaces, the e-mail address.
SecretOf(p, s, m) ==
    IF p \in {2, 3}
    THEN LET word == IF p = 2 THEN PASSWORD ELSE TOKEN
         IN  SubSeq(s, RunEnd(s, m[1] + Len(word) + 1, "space") + 1, m[2])
    ELSE SubSeq(s, m[1], m[2])
SecretsGone(before, after) ==
    \A p \in 1..NumPatterns : \A m \in Matches(p, Stage(before, p)) :
        ~contains(after, SecretOf(p, Stage(before, p), m))
\* No card number is left, and what is left of password[=:]value and
\* token[=:]value is the mask.
OnlyMasksLeft(message) ==
    /\ Matches(1, message) = {}
    /\ \A m \in Matches(2, message) : SubSeq(message, m[1], m[2]) = PASSWORD_MASK
    /\ \A m \in Matches(3, message) : SubSeq(message, m[1], m[2]) = TOKEN_MASK

ReferenceLimit(a) ==
    IF a \in DOMAIN quotas THEN quotas[a].logs_per_second ELSE DEFAULT_LIMIT
ReferenceRefilled(a, t) ==
    LET limit == ReferenceLimit(a)
        available == IF a \in DOMAIN tokens THEN tokens[a][1] ELSE limit
        last_update == IF a \in DOMAIN tokens THEN tokens[a][2] ELSE t
    IN  Min(limit * TicksPerSecond,
            available * TicksPerSecond + (t - last_update) * limit)
\* The step is a call of check_rate.
Called == requests' = requests + 1
\* C25: check_rate accepts exactly when min(limit, available + elapsed x limit)
\* is at least N, and then it stores that value less N, with now, for the app.
C25_ReferenceTokenBucket ==
    [][Called =>
         LET a == call'.app_name
             cost == call'.count * TicksPerSecond
             refilled == ReferenceRefilled(a, now)
         IN  /\ call'.ok <=> refilled >= cost
             /\ call'.ok =>
                   /\ a \in DOMAIN tokens'
                   /\ tokens'[a][1] * TicksPerSecond = refilled - cost
                   /\ tokens'[a][2] = now
       ]_vars

\* C26: a call of check_rate that rejects leaves every stored bucket, and the
\* absence of one, as it was.
C26_RejectKeepsBucket ==
    [][(Called /\ ~call'.ok) => tokens' = tokens]_vars
\* A rejected call for an app whose stored bucket the refill would have changed,
\* and one for an app without a bucket.
C26_Witness ==
    /\ requests > 0
    /\ ~call.ok
    /\ \/ /\ call.app_name \in DOMAIN tokens
          /\ tokens[call.app_name][2] < now
          /\ new_tokens(tokens[call.app_name][1], tokens[call.app_name][2],
                        limit_of(quotas, call.app_name), now)
                > tokens[call.app_name][1]
          /\ \E b \in Apps : b \notin DOMAIN tokens

\* C30: an accepted call has N <= the limit in force at the call and leaves at
\* most limit - N tokens; a call with N above that limit is rejected.
C30_NeverAboveTheLimit ==
    [][Called =>
         LET a == call'.app_name
             limit == limit_of(quotas, a)
         IN  /\ call'.ok =>
                   /\ call'.count <= limit
                   /\ tokens'[a][1] <= limit - call'.count
             /\ call'.count > limit => ~call'.ok
       ]_vars
\* A call rejected for a bucket that holds the tokens it asks for: the quota was
\* lowered below them since the bucket was stored.
C30_Witness ==
    /\ requests > 0
    /\ ~call.ok
    /\ call.app_name \in DOMAIN tokens
    /\ tokens[call.app_name][1] >= call.count
    /\ call.count <= MaxCount

\* The records admitted for app a by the calls that returned.
Returned == {r \in Callers : callers[r].pc = "done"}
JointlyAdmitted(a) ==
    SumOver([r \in Callers |-> callers[r].count],
            {r \in Returned : callers[r].app_name = a /\ callers[r].ok})
\* C27: the calls that returned left the token map, and got the answers, of the
\* same calls run one after another in the order of their returns; at most one
\* call is between its read of a bucket and its insert; and the calls for an
\* app with the default limit admit no more than the full bucket while no time
\* passes.
C27_SerializedUnderWriteLock ==
    /\ tokens = serial.tokens
    /\ \A r \in Returned : callers[r].ok = serial.ok[r]
    /\ Cardinality({r \in Callers : callers[r].pc \in {"locked", "refilled"}}) <= 1
    /\ \A r \in Callers : callers[r].pc \in {"locked", "refilled"} => writer = r
    /\ \A a \in Apps :
          (now = 0 /\ a \notin DOMAIN quotas) => JointlyAdmitted(a) <= DEFAULT_LIMIT
\* Two calls for one app, the later one arrived at the token lock while the
\* earlier one held it, and was rejected for the tokens the earlier one took.
C27_Witness ==
    \E r, s \in Returned :
       /\ serial.order = <<r, s>>
       /\ callers[r].app_name = callers[s].app_name
       /\ callers[s].contended
       /\ callers[r].ok /\ ~callers[s].ok
       /\ callers[s].count <= callers[s].limit
       /\ callers[s].at = callers[r].at

\* The number of times entry e occurs in sequence q.
Count(q, e) == Cardinality({i \in DOMAIN q : q[i] = e})
\* The entries push_back has put into the buffer.
Pushed == {c \in Entries : logcalls[c].pc \in {"check", "drain", "clear", "spawn", "done"}}
\* The `logs` a call of log holds after its drain, on the way to send_batch.
Spawning(c) == IF logcalls[c].pc = "spawn" THEN logcalls[c].logs ELSE <<>>
\* Where entry e is: in the buffer, in a drained `logs`, in batches.
Places(e) ==
    Count(buffer, e)
        + SumOver([c \in Entries |-> Count(Spawning(c), e)], Entries)
        + SumOver([b \in Batches |-> Count(batches[b].batch.logs, e)], Batches)
\* C23: every entry pushed is in the buffer or in exactly one batch, never in
\* both, in two batches, or nowhere; the buffer holds pushed entries only.
C23_EachEntryInOneBatch ==
    \A e \in Entries : Places(e) = (IF e \in Pushed THEN 1 ELSE 0)
\* A call of log is in its size-triggered drain while another call of log and
\* a flush loop whose sleep is over wait for the guard.
C23_Witness ==
    \E c, d \in Entries, l \in Loops :
       /\ mutex = LogTask(c) /\ logcalls[c].pc = "clear"
       /\ logcalls[d].pc = "lock"
       /\ loops[l].pc = "lock"

\* The tasks that are in an HTTP send, a backoff sleep, a disk spill or the
\* sleep of the flush interval.
InIo(l) ==
    \/ loops[l].pc \in {"sleep", "send"}
    \/ \E b \in Batches : batches[b].owner = l /\ batches[b].pc \in {"post", "backoff", "spill"}
\* C24: no task holds the guard of the buffer while it sends, sleeps or spills;
\* a call of log holds it from its lock to its return at the latest, and not
\* while its batch is sent; and every call of log that waits for the guard
\* returns, whether or not any send, sleep or spill in progress ever ends.
C24_NoIoUnderTheGuard ==
    /\ [](\A l \in Loops : InIo(l) => mutex # LoopTask(l))
    /\ [](\A c \in Entries :
            logcalls[c].pc \in {"idle", "lock", "spawn", "done"} => mutex # LogTask(c))
    /\ \A c \in Entries : (logcalls[c].pc = "lock") ~> (logcalls[c].pc = "done")
\* A call of log entered and returned while the batch a flush loop sends was in
\* its backoff sleep.
C24_Witness ==
    \E c \in Entries, b \in Batches :
       /\ logcalls[c].pc = "done"
       /\ Count(buffer, c) = 1
       /\ batches[b].owner # 0
       /\ batches[b].pc = "backoff"
       /\ batches[b].attempt = 2

\* The step ends a migration tick; T7 and T30 are those of the tick.
Completes == archiver.pc = "cold_delete" /\ archiver'.pc = "sleep"
T7 == seven_days_ago(archiver.now)
T30 == thirty_days_ago(archiver.now)
Stamp(d) == d.source.timestamp
AllSucceeded(a) ==
    a.reindexed = "2xx" /\ a.hot_deleted = "2xx" /\ a.cold_deleted = "2xx"
C28_Failed == archiver.reindexed \in {"non2xx", "error"}
C28_HotDeleteOnlyAfterReindex ==
    /\ [](archiver.pc = "hot_delete" => archiver.reindexed = "2xx")
    /\ [](archiver.hot_deleted # "none" => archiver.reindexed = "2xx")
    /\ [][C28_Failed' => \A d \in index : \E e \in index' : e._id = d._id]_vars
    /\ [](archiver.pc \in {"sleep", "reindex", "hot_delete", "cold_delete"})
    /\ [][(archiver.pc = "reindex" /\ C28_Failed') => archiver'.pc = "cold_delete"]_vars
    /\ (C28_Failed /\ archiver.pc = "cold_delete")
           ~> (archiver.pc = "reindex" /\ archiver.reindexed = "none")
\* A tick whose reindex failed has ended, and the records it should have moved
\* are still in the hot tier.
C28_Witness ==
    /\ archiver.pc = "sleep"
    /\ C28_Failed
    /\ archiver.cold_deleted # "none"
    /\ archiver.found
    /\ \E d \in index : Stamp(d) < T7

\* C29: a step that removes a record of timestamp >= T30 from the hot tier
\* leaves a copy of it in the cold tier.
C29_NoRemovalWithoutColdCopy ==
    [][\A d \in index :
          (Stamp(d) >= T30 /\ \A e \in index' : e._id # d._id)
              => \E c \in cold' : c._id = d._id
      ]_vars

\* The record satisfies every filter clause present in the query.
Satisfies(record, query) ==
    /\ query.app_name # None => record.app_name = query.app_name[1]
    /\ query.level # None => record.level = query.level[1]
    /\ query.from # None => query.from[1] <= record.timestamp
    /\ query.to # None => record.timestamp <= query.to[1]
    /\ query.attributes # None =>
          \A key \in DOMAIN query.attributes[1] :
             /\ key \in DOMAIN record.attributes
             /\ record.attributes[key] = query.attributes[1][key]
\* C22: every record of a search result satisfies every filter clause of the
\* query; the result has at most limit records (100 without a limit), in
\* descending order of timestamp; and it is empty when from > to.
C22_SearchFilterSoundness ==
    /\ \A i \in DOMAIN found.results : Satisfies(found.results[i], found.query)
    /\ Len(found.results) <= (IF found.query.limit = None THEN 100 ELSE found.query.limit[1])
    /\ \A i, j \in DOMAIN found.results :
          i < j => found.results[i].timestamp >= found.results[j].timestamp
    /\ (found.query.from # None /\ found.query.to # None
           /\ found.query.from[1] > found.query.to[1]) => found.results = <<>>

\* An attempt of the Agent's batch was answered in this step.
Answered == Len(delivery'.statuses) = Len(delivery.statuses) + 1
\* The tokens the bucket of the batch's app holds at the time of the step.
Available ==
    LET limit == limit_of(quotas, RetriedApp)
        bucket == bucket_of(tokens, RetriedApp, limit, now)
    IN  Min(limit, bucket[1] + ((now - bucket[2]) * limit) \div TicksPerSecond)
\* C31: a POST /ingest answered 500 leaves the app's bucket reduced by the
\* batch's record count, and nothing gives the tokens back while the Agent
\* waits; every attempt of the Agent, retries included, faces the quota check
\* again: it is answered 429 when the bucket holds less than the count, and is
\* charged the count again otherwise, so the batch is charged once per attempt
\* that passed the check.
C31_FailedForwardKeepsTheDebit ==
    [][/\ Answered =>
            LET status == delivery'.statuses[Len(delivery'.statuses)]
                count == delivery.count
            IN  /\ status \in {200, 429, 500}
                /\ status = 429 <=> Available < count
                /\ status = 429 => tokens' = tokens
                /\ status # 429 => /\ RetriedApp \in DOMAIN tokens'
                                    /\ tokens'[RetriedApp] = <<Available - count, now>>
                /\ delivery'.charged =
                      count * Cardinality({i \in DOMAIN delivery'.statuses :
                                              delivery'.statuses[i] # 429})
       /\ (~Answered /\ delivery'.others = delivery.others) => tokens' = tokens
      ]_vars
C31_Witness ==
    /\ delivery.statuses = <<500, 429, 500>>
    /\ delivery.charged = 2 * delivery.count
    /\ now = (Pow(BACKOFF_BASE, 1) + Pow(BACKOFF_BASE, 2)) * TicksPerSecond
====
